---- MODULE Spec2Model ----
(***************************************************************************)
(* Composite backend (Main-Backend-Service): the fan-out/aggregation       *)
(* endpoints, the Pub/Sub notification pipeline and user-id resolution.    *)
(*                                                                         *)
(* Independent parts share no program state and are checked under their   *)
(* own specifications:                                                     *)
(*   SpecAgg  - get_user_feed / get_user_activity (routers/composite_router)*)
(*   SpecSub  - startup, the listener threads, handle_event_created and     *)
(*              handle_user_created (main, pubsub)                         *)
(*   SpecApi  - create_event, create_post, sync_user, get_event_task_status *)
(*              and get_user_id_from_firebase_uid with the publishers      *)
(*   SpecPub  - _ensure_publisher_initialized (pubsub/publishers)          *)
(*   SpecTok  - get_identity_token and its cache (cross_account_auth)      *)
(*   SpecGql  - resolve_user (graphql_api) beside get_user_feed             *)
(*   SpecFwd  - forward_request behind the delegating GET endpoints, and    *)
(*              get_event                                                   *)
(*   SpecAuth - verify_firebase_token (auth)                                *)
(***************************************************************************)
EXTENDS Integers, Sequences, FiniteSets, TLC

VARIABLES
    \* ---- aggregation endpoints (one entry per inbound request)
    aggPc,        \* position of the handler: idle / validate / joining / done
    aggEndpoint,  \* "feed" or "activity"
    aggBranch,    \* per branch thread: notstarted / running / finished
    aggOutcome,   \* what the upstream of each branch did (history)
    results,      \* the handler's results dict
    errors,       \* the handler's errors dict (branch name -> str(e))
    aggWritten,   \* keys of results a branch thread has assigned (history)
    aggResponse,  \* the HTTP response, <<>> while none was produced
    aggValidate,  \* what the Users service did to the existence check (history)
    aggCalls,     \* headers of the outbound calls issued so far, per call
    \* ---- subscribers (one entry per message of a subscription)
    msgBody,      \* message.data, <<>> before the message exists
    msgState,     \* absent / delivered / processing / acked / nacked / ...
    msgDeliveries,\* how many times the transport has delivered the message
    ackCalls,     \* message.ack() calls made during the current delivery
    nackCalls,    \* message.nack() calls made during the current delivery
    emailResult,  \* send_email of the current delivery: none / sent / failed
    emailsSent,   \* emails handed to SMTP for the message, over all deliveries
    msgCalls,     \* send_email / ack / nack calls of the current delivery, in order
    emailCall,    \* arguments of the send_email call of the current delivery
    msgLookup,    \* what GET /users/{id} did during the current delivery (history)
    cbRaised,     \* an exception left the callback of the current delivery
    \* ---- application startup and the two listener threads
    appPc,        \* startup / event_thread / user_thread / serving / crashed
    startEnv,     \* what start_subscribers met (history)
    listener,     \* per subscription: nothread / starting / running / ended
    listenerThreads, \* threads created for the subscription
    listenerEnd,  \* why the listener of the subscription ended (history)
    \* ---- create / sync / task-status endpoints and user-id resolution
    users,        \* the Users service's records
    events,       \* the Events service's records
    published,    \* messages that reached a Pub/Sub topic
    apiKind,      \* which operation the request runs
    apiPc,        \* position of the request: idle / lookup / sync / forward / done
    apiUserId,    \* the user id resolved for the caller, None if none
    apiSyncSent,  \* POST /users/sync requests the resolution issued
    apiAfterCreate, \* the subject already had a user when the request started
    apiLookup,    \* status of GET /users/me seen by the resolution (history)
    apiUpstream,  \* outcome of the forwarded upstream call (history)
    apiResult,    \* the parsed upstream result the handler holds
    apiPub,       \* what the publish attempt met (history)
    apiResponse,  \* the HTTP response (or the value returned), None while none
    apiIdentity,  \* the inbound request carried an identity (history)
    apiQuery,     \* the q query parameter of the inbound request, None if absent
    apiCalls,     \* outbound HTTP requests the request has issued so far
    apiToken,     \* decoded_token of the call that attempted an auto-sync (history)
    apiBody,      \* JSON body of an inbound create request, None for the others
    apiSent,      \* JSON body of the upstream create call, None while none
    \* ---- lazy initialisation of the shared publisher client
    publisher,    \* the module global: None or the client object (its number)
    publisherInitialized, \* the module global _publisher_initialized
    projectId,    \* whether GCP_PROJECT_ID is set in the process
    ensurePc,     \* per call: idle / construct / test / done
    ensureRet,    \* per call: none / true / false
    ensureLate,   \* a call had returned True before this call started (history)
    ensureBuilt,  \* this call constructed a PublisherClient (history)
    clientsBuilt, \* PublisherClient objects constructed in the process
    \* ---- identity-token cache (cross_account_auth)
    tokenCache,   \* _token_cache: per target None or the (token, timestamp) entry
    now,          \* time.time(), in seconds since the process started
    tokPc,        \* per call: idle / fetch / store / done
    tokTarget,    \* per call: its target_url
    tokFetched,   \* per call: what fetch_id_token handed back, None while none
    tokRet,       \* per call: the returned string, None while the call runs
    tokConcurrent,\* another call for the target was mid-fetch at the check (history)
    tokFetches,   \* network fetches issued so far, per target
    \* ---- the user aggregation on its two surfaces (REST feed, GraphQL user)
    gqlPc,        \* idle / asked / done
    gqlUps,       \* what each upstream does to the calls of the two surfaces
    gqlRest,      \* the response of GET /api/users/{id}/feed, None while none
    gqlGraph,     \* the result of the GraphQL user query, None while none
    \* ---- the delegating GET endpoints (one inbound request)
    fwdPc,        \* idle / sent / done
    fwdEndpoint,  \* the handler of the request
    fwdInm,       \* the client's If-None-Match header, None if absent
    fwdSent,      \* headers of the upstream request, None before it is sent
    fwdUp,        \* what the upstream did, None while it has not answered
    fwdResponse,  \* the response to the client, None while none
    \* ---- verify_firebase_token (one call in one process)
    authPc,       \* unloaded / idle / called / done
    authSdk,      \* firebase_admin._apps is not empty
    authHeader,   \* the Authorization header of the call, None if absent
    authVerify,   \* what auth.verify_id_token would do with the token (history)
    authResult    \* the decoded token or the HTTPException, None while none

aggVars == <<aggPc, aggEndpoint, aggBranch, aggOutcome, results, errors,
             aggWritten, aggResponse, aggValidate, aggCalls>>

msgVars == <<msgBody, msgState, msgDeliveries, ackCalls, nackCalls,
             emailResult, emailsSent, msgCalls, emailCall, msgLookup, cbRaised>>

lsnVars == <<appPc, startEnv, listener, listenerThreads, listenerEnd>>

subVars == <<msgVars, lsnVars>>

apiVars == <<users, events, published, apiKind, apiPc, apiUserId, apiSyncSent,
             apiAfterCreate, apiLookup, apiUpstream, apiResult, apiPub,
             apiResponse, apiIdentity, apiQuery, apiCalls, apiToken,
             apiBody, apiSent>>

pubVars == <<publisher, publisherInitialized, projectId, ensurePc, ensureRet,
             ensureLate, ensureBuilt, clientsBuilt>>

tokVars == <<tokenCache, now, tokPc, tokTarget, tokFetched, tokRet,
             tokConcurrent, tokFetches>>

gqlVars == <<gqlPc, gqlUps, gqlRest, gqlGraph>>

fwdVars == <<fwdPc, fwdEndpoint, fwdInm, fwdSent, fwdUp, fwdResponse>>

authVars == <<authPc, authSdk, authHeader, authVerify, authResult>>

vars == <<aggVars, subVars, apiVars, pubVars, tokVars, gqlVars, fwdVars, authVars>>

----------------------------------------------------------------------------
\* Python's None / an optional value: the empty or the one-element sequence.
None == <<>>
Some(x) == <<x>>

\* dict.get(key, default) on a JSON object modelled as a record.
DictGet(d, k, default) == IF k \in DOMAIN d THEN d[k] ELSE default

\* d[k] = v on a dict modelled as a function.
DictSet(d, k, v) == [x \in (DOMAIN d) \cup {k} |-> IF x = k THEN v ELSE d[x]]

----------------------------------------------------------------------------
(* Aggregation endpoints                                                   *)

\* The two concurrent inbound requests of the activity scenario.
AggReqs == {"r1", "r2"}
Endpoints == {"feed", "activity"}
Branches == {"user", "posts", "events"}

\* The {user_id} path parameter (both requests ask for the same id).
AggUserId(r) == 1

\* The inbound request's identity (request.state.firebase_uid or the
\* x-firebase-uid header) and its Authorization header, None when absent.
CallerUid == "uidA"
AggAuthorization(r) == IF r = "r1" THEN Some("Bearer tokA") ELSE None

\* What an upstream GET can do within the 10 s timeout of a branch.
UserBodies == { <<[user_id |-> 2]>>, <<[user_id |-> 2], [user_id |-> 1]>> }
ListBodies == { [items |-> <<"item">>] }
UpstreamFailures ==
    { [kind |-> "http", status |-> 500, body |-> None],
      [kind |-> "http", status |-> 404, body |-> None],
      [kind |-> "timeout"], [kind |-> "unreachable"] }
UpstreamOk(b) ==
    { [kind |-> "http", status |-> 200, body |-> x] :
        x \in IF b = "user" THEN UserBodies ELSE ListBodies }
UpstreamOutcomes(b) == UpstreamOk(b) \cup UpstreamFailures

\* Classification of an upstream outcome (history only).
OutcomeClass(up) ==
    IF up.kind # "http" THEN "exc"
    ELSE IF up.status = 200 THEN "ok" ELSE "non200"

\* results = {"user": None, "posts": [], "events": []}; errors = {}
InitialResults == [user |-> None, posts |-> <<>>, events |-> <<>>]
InitialErrors == <<>>

\* The first record of the users list whose user_id is the requested one.
FindUser(user_list, user_id) ==
    IF \E i \in 1..Len(user_list) : user_list[i].user_id = user_id
    THEN Some(user_list[CHOOSE i \in 1..Len(user_list) :
                          /\ user_list[i].user_id = user_id
                          /\ \A j \in 1..(i - 1) : user_list[j].user_id # user_id])
    ELSE None

\* A branch thread that records its failure under one key shared by all.
FetchBranchSharedKey(b, user_id, up, res, errs) ==
    IF up.kind # "http"
    THEN [results |-> res, errors |-> DictSet(errs, "error", <<b, up.kind>>),
          wrote |-> FALSE]
    ELSE IF up.status # 200
    THEN [results |-> res, errors |-> errs, wrote |-> FALSE]
    ELSE IF b = "user"
    THEN [results |-> [res EXCEPT !.user = FindUser(up.body, user_id)],
          errors |-> errs, wrote |-> TRUE]
    ELSE [results |-> [res EXCEPT ![b] = DictGet(up.body, "items", <<>>)],
          errors |-> errs, wrote |-> TRUE]

\* One branch thread (fetch_user / fetch_posts / fetch_events): the effect of
\* its try/except on results and errors, and whether it assigned its key.
FetchBranch(b, user_id, up, res, errs) ==
    IF up.kind # "http"
    THEN \* the awaited GET raised: except Exception as e: errors[b] = str(e)
         [results |-> res, errors |-> DictSet(errs, b, up.kind), wrote |-> FALSE]
    ELSE IF up.status # 200
    THEN \* "if resp.status_code == 200" is false: nothing is recorded
         [results |-> res, errors |-> errs, wrote |-> FALSE]
    ELSE IF b = "user"
    THEN LET u == FindUser(up.body, user_id) IN
         IF u # None
         THEN [results |-> [res EXCEPT !.user = u], errors |-> errs, wrote |-> TRUE]
         ELSE [results |-> res, errors |-> errs, wrote |-> FALSE]
    ELSE [results |-> [res EXCEPT ![b] = DictGet(up.body, "items", <<>>)],
          errors |-> errs, wrote |-> TRUE]

\* validate_user_exists: headers = {}; if firebase_uid: headers[...] = it
ValidateHeaders(firebase_uid) ==
    IF firebase_uid # None THEN ("x-firebase-uid" :> firebase_uid[1]) ELSE <<>>

\* The argument each endpoint passes as validate_user_exists' firebase_uid.
ValidateArg(ep, firebase_uid, authorization) ==
    IF ep = "feed" THEN authorization ELSE Some(firebase_uid)

\* The headers dict the branch threads of each endpoint send.
BranchHeaders(ep, firebase_uid, authorization) ==
    IF ep = "feed"
    THEN IF authorization # None THEN ("Authorization" :> authorization[1]) ELSE <<>>
    ELSE ("x-firebase-uid" :> firebase_uid)

\* An existence check that lets every request through.
ValidateUserExistsAlways(user_id, up) == TRUE
\* validate_user_exists: True only for a 200 whose list holds the user id;
\* False for any other status and for any exception.
ValidateUserExists(user_id, up) ==
    /\ up.kind = "http"
    /\ up.status = 200
    /\ \E i \in 1..Len(up.body) : up.body[i].user_id = user_id

\* What the Users service did to the existence check (history only).
ValidateClass(user_id, up) ==
    IF up.kind # "http" THEN up.kind
    ELSE IF up.status # 200 THEN "non200"
    ELSE IF FindUser(up.body, user_id) # None THEN "present" ELSE "absent"

\* A join that returns as soon as one thread has ended.
AllJoinedAny(r) == \E b \in Branches : aggBranch[r][b] = "finished"
\* for thread in threads: thread.join()
AllJoined(r) == \A b \in Branches : aggBranch[r][b] = "finished"

\* A feed that answers 200 with whatever the user branch left.
FeedResponseUnchecked(res, errs) ==
    IF DOMAIN errs # {}
    THEN [status |-> 500, detail |-> "Errors fetching data", errors |-> errs]
    ELSE [status |-> 200, user |-> res.user, posts |-> res.posts,
          events |-> res.events]

\* The response get_user_feed composes after the join.
FeedResponse(res, errs) ==
    IF DOMAIN errs # {}
    THEN [status |-> 500, detail |-> "Errors fetching data", errors |-> errs]
    ELSE IF res.user = None
    THEN [status |-> 404, detail |-> "User not found"]
    ELSE [status |-> 200, user |-> res.user, posts |-> res.posts,
          events |-> res.events]

\* get_user_activity answering 200 with whatever was collected, errors ignored.
ActivityResponseIgnoringErrors(user_id, res, errs) ==
    [status |-> 200, user_id |-> user_id, user |-> res.user,
     events |-> res.events, posts |-> res.posts]

\* The response get_user_activity composes after the join.
ActivityResponse(user_id, res, errs) ==
    IF DOMAIN errs # {}
    THEN [status |-> 500, detail |-> "Errors fetching data", errors |-> errs]
    ELSE [status |-> 200, user_id |-> user_id, user |-> res.user,
          events |-> res.events, posts |-> res.posts]

\* The handlers are coroutines of one event loop: between the start of the
\* branch threads and the end of the join loop the handler never awaits, so
\* the loop runs no step of any other handler while a request is joining.
EventLoopFree(r) == \A other \in AggReqs \ {r} : aggPc[other] # "joining"

InitAgg ==
    /\ aggPc = [r \in AggReqs |-> "idle"]
    /\ aggEndpoint = [r \in AggReqs |-> "feed"]
    /\ aggBranch = [r \in AggReqs |-> [b \in Branches |-> "notstarted"]]
    /\ aggOutcome = [r \in AggReqs |-> [b \in Branches |-> "pending"]]
    /\ results = [r \in AggReqs |-> InitialResults]
    /\ errors = [r \in AggReqs |-> InitialErrors]
    /\ aggWritten = [r \in AggReqs |-> {}]
    /\ aggResponse = [r \in AggReqs |-> None]
    /\ aggValidate = [r \in AggReqs |-> "pending"]
    /\ aggCalls = [r \in AggReqs |-> <<>>]

\* An inbound GET /api/users/{id}/feed or /activity reaches its handler;
\* get_firebase_uid_from_request raises 401 when no identity is present.
AggStart(r) ==
    /\ aggPc[r] = "idle"
    /\ EventLoopFree(r)
    /\ \E ep \in Endpoints, hasUid \in BOOLEAN :
         /\ aggEndpoint' = [aggEndpoint EXCEPT ![r] = ep]
         /\ IF hasUid
            THEN /\ aggPc' = [aggPc EXCEPT ![r] = "validate"]
                 /\ UNCHANGED aggResponse
            ELSE /\ aggPc' = [aggPc EXCEPT ![r] = "done"]
                 /\ aggResponse' = [aggResponse EXCEPT ![r] =
                        Some([status |-> 401, detail |-> "Authentication required"])]
    /\ UNCHANGED <<aggBranch, aggOutcome, results, errors, aggWritten,
                   aggValidate, aggCalls>>
    /\ UNCHANGED <<subVars, apiVars, pubVars, tokVars, gqlVars, fwdVars, authVars>>

\* await validate_user_exists(...); on False raise 404, otherwise build the
\* results/errors dicts and start the three branch threads.
AggValidate(r) ==
    /\ aggPc[r] = "validate"
    /\ EventLoopFree(r)
    /\ \E up \in UpstreamOutcomes("user") :
         /\ aggValidate' = [aggValidate EXCEPT ![r] = ValidateClass(AggUserId(r), up)]
         /\ aggCalls' = [aggCalls EXCEPT ![r] = DictSet(@, "validate",
                ValidateHeaders(ValidateArg(aggEndpoint[r], CallerUid,
                                            AggAuthorization(r))))]
         /\ IF ValidateUserExists(AggUserId(r), up)
            THEN /\ aggPc' = [aggPc EXCEPT ![r] = "joining"]
                 /\ results' = [results EXCEPT ![r] = InitialResults]
                 /\ errors' = [errors EXCEPT ![r] = InitialErrors]
                 /\ aggBranch' = [aggBranch EXCEPT ![r] = [b \in Branches |-> "running"]]
                 /\ UNCHANGED aggResponse
            ELSE /\ aggPc' = [aggPc EXCEPT ![r] = "done"]
                 /\ aggResponse' = [aggResponse EXCEPT ![r] =
                        Some([status |-> 404, detail |-> "User not found"])]
                 /\ UNCHANGED <<results, errors, aggBranch>>
    /\ UNCHANGED <<aggEndpoint, aggOutcome, aggWritten>>
    /\ UNCHANGED <<subVars, apiVars, pubVars, tokVars, gqlVars, fwdVars, authVars>>

\* A branch thread runs to its end: the upstream answers, fails or the call
\* times out, and the thread records what its code records.
BranchRun(r, b) ==
    /\ aggBranch[r][b] = "running"
    /\ \E up \in UpstreamOutcomes(b) :
         LET f == FetchBranch(b, AggUserId(r), up, results[r], errors[r]) IN
         /\ results' = [results EXCEPT ![r] = f.results]
         /\ errors' = [errors EXCEPT ![r] = f.errors]
         /\ aggWritten' = [aggWritten EXCEPT ![r] =
                IF f.wrote THEN @ \cup {b} ELSE @]
         /\ aggOutcome' = [aggOutcome EXCEPT ![r][b] = OutcomeClass(up)]
    /\ aggCalls' = [aggCalls EXCEPT ![r] = DictSet(@, b,
           BranchHeaders(aggEndpoint[r], CallerUid, AggAuthorization(r)))]
    /\ aggBranch' = [aggBranch EXCEPT ![r][b] = "finished"]
    /\ UNCHANGED <<aggPc, aggEndpoint, aggResponse, aggValidate>>
    /\ UNCHANGED <<subVars, apiVars, pubVars, tokVars, gqlVars, fwdVars, authVars>>

\* The handler returns from the join loop and composes the response.
AggJoin(r) ==
    /\ aggPc[r] = "joining"
    /\ AllJoined(r)
    /\ aggResponse' = [aggResponse EXCEPT ![r] =
           Some(IF aggEndpoint[r] = "feed"
                THEN FeedResponse(results[r], errors[r])
                ELSE ActivityResponse(AggUserId(r), results[r], errors[r]))]
    /\ aggPc' = [aggPc EXCEPT ![r] = "done"]
    /\ UNCHANGED <<aggEndpoint, aggBranch, aggOutcome, results, errors,
                   aggWritten, aggValidate, aggCalls>>
    /\ UNCHANGED <<subVars, apiVars, pubVars, tokVars, gqlVars, fwdVars, authVars>>

NextAgg ==
    \/ \E r \in AggReqs : AggStart(r)
    \/ \E r \in AggReqs : AggValidate(r)
    \/ \E r \in AggReqs, b \in Branches : BranchRun(r, b)
    \/ \E r \in AggReqs : AggJoin(r)

----------------------------------------------------------------------------
(* Claims about the aggregation endpoints (checked under SpecAgg)          *)

AggJoined(r) == aggPc[r] = "done" /\ AllJoined(r)

\* C1: after the join every one of the three branches has exactly one outcome,
\* a payload its thread recorded in results or a failure marker in errors,
\* whatever the upstream of the branch did.
C1_OneOutcomePerBranch ==
    \A r \in AggReqs : AggJoined(r) =>
        \A b \in Branches : (b \in aggWritten[r]) # (b \in DOMAIN errors[r])

\* C2 (as claimed): for /activity, when the events branch fails while the posts
\* branch succeeds, the response carries the posts payload and a failure
\* marker for events.
C2_PartialResponse ==
    \A r \in AggReqs :
        (/\ aggPc[r] = "done"
         /\ aggEndpoint[r] = "activity"
         /\ aggOutcome[r]["events"] = "exc"
         /\ aggOutcome[r]["posts"] = "ok")
        => LET resp == aggResponse[r][1] IN
           /\ "posts" \in DOMAIN resp
           /\ resp.posts = results[r].posts
           /\ "errors" \in DOMAIN resp
           /\ "events" \in DOMAIN resp.errors

C2_EventsFailedPostsOk(r) ==
    /\ aggPc[r] = "done"
    /\ aggEndpoint[r] = "activity"
    /\ aggOutcome[r]["events"] = "exc"
    /\ aggOutcome[r]["posts"] = "ok"

\* C2 (amended): for /activity, when the events call raises (timeout or
\* connection error) while the posts branch succeeds, the posts payload is
\* collected in results but the response is the 500 "Errors fetching data"
\* carrying the failure marker for events and no posts payload; this holds for
\* each of the two concurrent requests, and both requests terminate.
C2_EventsFailureIs500 ==
    /\ [](\A r \in AggReqs : C2_EventsFailedPostsOk(r) =>
            LET resp == aggResponse[r][1] IN
            /\ "posts" \in aggWritten[r]
            /\ resp.status = 500
            /\ resp.detail = "Errors fetching data"
            /\ "events" \in DOMAIN resp.errors
            /\ "posts" \notin DOMAIN resp)
    /\ <>(\A r \in AggReqs : aggPc[r] = "done")

C2_Witness == \A r \in AggReqs : C2_EventsFailedPostsOk(r)

\* C3: a response of the fan-out is composed only after all three branch
\* threads have terminated: no branch is left running or never started because
\* another one failed, and every terminated branch has met its upstream.
C3_ResponseAfterFullJoin ==
    \A r \in AggReqs :
        (aggResponse[r] # None /\ \E b \in Branches : aggBranch[r][b] # "notstarted")
        => \A b \in Branches :
             aggBranch[r][b] = "finished" /\ aggOutcome[r][b] # "pending"

C3_Witness ==
    \E r \in AggReqs :
        /\ aggResponse[r] # None
        /\ aggOutcome[r]["user"] = "exc"
        /\ aggOutcome[r]["posts"] = "ok"
        /\ aggOutcome[r]["events"] = "ok"

\* C11: when the Users service's list does not hold the requested user, the
\* feed/activity request ends with 404 "User not found" and none of its three
\* branch calls is ever issued (no branch thread exists, no branch call was
\* sent); and a branch thread only ever exists after the existence check has
\* been sent and has found the user.
C11_NoBranchWithoutUser ==
    \A r \in AggReqs :
        /\ (aggValidate[r] = "absent") =>
               /\ aggPc[r] = "done"
               /\ aggResponse[r] = Some([status |-> 404, detail |-> "User not found"])
               /\ \A b \in Branches :
                     aggBranch[r][b] = "notstarted" /\ b \notin DOMAIN aggCalls[r]
        /\ (\E b \in Branches :
                aggBranch[r][b] # "notstarted" \/ b \in DOMAIN aggCalls[r])
           => /\ aggValidate[r] = "present"
              /\ "validate" \in DOMAIN aggCalls[r]

C11_Witness ==
    /\ aggValidate["r1"] = "absent"
    /\ aggResponse["r1"] # None
    /\ aggValidate["r2"] = "present"
    /\ aggBranch["r2"]["user"] = "finished"

\* C12: in get_user_feed, whenever at least one of the three branches failed
\* (non-200 status, timeout or unreachable upstream) the response is the 500
\* "Errors fetching data"; the response is 200 only when all three branches
\* succeeded.
C12_AnyBranchFailureIs500 ==
    \A r \in AggReqs :
        (AggJoined(r) /\ aggEndpoint[r] = "feed") =>
            LET resp == aggResponse[r][1] IN
            /\ (\E b \in Branches : aggOutcome[r][b] # "ok")
                  => resp.status = 500 /\ resp.detail = "Errors fetching data"
            /\ resp.status = 200 => \A b \in Branches : aggOutcome[r][b] = "ok"

\* C13: every outbound call of a request that carries an identity has the
\* x-firebase-uid header equal to the caller's identity and no Authorization
\* header; the existence check and the three branch calls included.
C13_ForwardedIdentityOnly ==
    \A r \in AggReqs : \A c \in DOMAIN aggCalls[r] :
        LET h == aggCalls[r][c] IN
        /\ "x-firebase-uid" \in DOMAIN h
        /\ h["x-firebase-uid"] = CallerUid
        /\ "Authorization" \notin DOMAIN h

\* C14: when the Users service is unreachable during the existence check of
\* feed/activity, the response status is 503.
C14_UnreachableIs503 ==
    \A r \in AggReqs :
        (aggPc[r] = "done" /\ aggValidate[r] = "unreachable")
        => aggResponse[r][1].status = 503

\* The user branch of a joined request left no record and no branch raised.
NoUserAfterFanOut(r) ==
    /\ AggJoined(r)
    /\ DOMAIN errors[r] = {}
    /\ results[r].user = None

C22_OtherRequestProceeds ==
    \A r \in AggReqs : \A other \in AggReqs \ {r} :
        aggPc[r] = "joining" =>
            /\ (aggPc[other] = "idle" => ENABLED AggStart(other))
            /\ (aggPc[other] = "validate" => ENABLED AggValidate(other))

\* The two orders in which the threads of b1 and b2 can record their outcomes
\* give the same results and errors.
BranchesCommute(r, b1, up1, b2, up2) ==
    LET f1 == FetchBranch(b1, AggUserId(r), up1, results[r], errors[r])
        f12 == FetchBranch(b2, AggUserId(r), up2, f1.results, f1.errors)
        f2 == FetchBranch(b2, AggUserId(r), up2, results[r], errors[r])
        f21 == FetchBranch(b1, AggUserId(r), up1, f2.results, f2.errors)
    IN f12.results = f21.results /\ f12.errors = f21.errors

\* C23: the collection of the branch outcomes is race-free: a key of results
\* or errors changes only in the step of the thread of that branch, errors
\* holds branch names only, and whenever two threads are still to record their
\* outcomes, both orders give the same results and errors for all upstream
\* outcomes (the final contents do not depend on the order of the threads).
C23_RaceFreeCollection ==
    /\ [](\A r \in AggReqs :
            /\ DOMAIN errors[r] \subseteq Branches
            /\ \A b1 \in Branches, b2 \in Branches :
                 (b1 # b2 /\ aggBranch[r][b1] = "running"
                          /\ aggBranch[r][b2] = "running")
                 => \A up1 \in UpstreamOutcomes(b1), up2 \in UpstreamOutcomes(b2) :
                      BranchesCommute(r, b1, up1, b2, up2))
    /\ [][\A r \in AggReqs : \A k \in Branches :
            (\/ results'[r][k] # results[r][k]
             \/ (k \in DOMAIN errors'[r]) # (k \in DOMAIN errors[r]))
            => (aggBranch[r][k] = "running" /\ aggBranch'[r][k] = "finished")]_vars

C23_Witness ==
    \E r \in AggReqs :
        /\ aggPc[r] = "done"
        /\ aggOutcome[r]["user"] = "ok" /\ "user" \in aggWritten[r]
        /\ DOMAIN errors[r] = {"posts", "events"}
        /\ errors[r]["posts"] # errors[r]["events"]

----------------------------------------------------------------------------
(* Subscribers: handle_event_created (behind wrapped_callback) and         *)
(* handle_user_created                                                     *)

\* One message on each subscription; the transport redelivers a message that
\* was negatively acknowledged, at most MaxDeliveries times (its dead-letter
\* policy).
Msgs == {"e1", "u1"}
MsgSub(m) == IF m = "e1" THEN "event-notification-sub" ELSE "user-welcome-sub"
Subs == {"event-notification-sub", "user-welcome-sub"}
MaxDeliveries == 2

\* message.data as the transport hands it over: bytes that are not UTF-8, text
\* that is not JSON, or a JSON value.
MalformedBodies ==
    { [enc |-> "badutf8"], [enc |-> "badjson"],
      [enc |-> "json", type |-> "array", value |-> <<1, 2>>] }
EventBodies ==
    MalformedBodies \cup
    { [enc |-> "json", type |-> "object",
       value |-> [event_id |-> 5, event_data |-> Some([title |-> "Party"])]],
      [enc |-> "json", type |-> "object",
       value |-> [event_id |-> 5, user_id |-> 1,
                  event_data |-> Some([title |-> "Party"])]],
      [enc |-> "json", type |-> "object",
       value |-> [event_id |-> 5, user_id |-> 1, event_data |-> None]] }
\* A payload whose recipient is under a key the handler does not read.
UserCreatedPayloadRenamed(user_id, firebase_uid, email, first_name, role) ==
    [event_type |-> "user.created", user_id |-> user_id,
     firebase_uid |-> firebase_uid, email_address |-> email,
     first_name |-> first_name, role |-> role, timestamp |-> "isoformat"]

\* message_payload of publish_user_created.
UserCreatedPayload(user_id, firebase_uid, email, first_name, role) ==
    [event_type |-> "user.created", user_id |-> user_id,
     firebase_uid |-> firebase_uid, email |-> email,
     first_name |-> first_name, role |-> role, timestamp |-> "isoformat"]

\* json.dumps(message_payload).encode("utf-8"): the bytes of a JSON object.
JsonDumps(payload) == [enc |-> "json", type |-> "object", value |-> payload]

\* The message publish_user_created writes for user 42.
PublishedUserCreated ==
    JsonDumps(UserCreatedPayload(42, "uidA", "a@b.com", "Ann", "user"))

\* The keys handle_user_created reads with data.get.
UserCreatedKeysRead == {"email", "first_name", "user_id", "firebase_uid", "role"}

UserBodiesMsg ==
    MalformedBodies \cup
    { [enc |-> "json", type |-> "object",
       value |-> [user_id |-> 42, first_name |-> "Ann"]],
      [enc |-> "json", type |-> "object",
       value |-> [user_id |-> 42, email |-> "a@b.com", first_name |-> "Ann"]],
      PublishedUserCreated }
Bodies(m) == IF m = "e1" THEN EventBodies ELSE UserBodiesMsg

\* What GET /users/{user_id} can do within the 5 s timeout of get_user_by_id.
LookupOutcomes ==
    { [kind |-> "http", status |-> 200,
       body |-> [user_id |-> 1, email |-> "a@b.com", first_name |-> "Ann"]],
      [kind |-> "http", status |-> 200, body |-> [user_id |-> 1, first_name |-> "Ann"]],
      [kind |-> "http", status |-> 404], [kind |-> "http", status |-> 500],
      [kind |-> "timeout"], [kind |-> "unreachable"] }

\* What the SMTP side of send_email can do.
SmtpOutcomes == {"ok", "no_credentials", "auth_error", "smtp_error", "error"}

\* A lookup that answers a failed call with the record it served last.
GetUserByIdCached(up) ==
    IF up.kind = "http" /\ up.status = 404 THEN None
    ELSE IF up.kind = "http" /\ up.status = 200 THEN Some(up.body)
    ELSE Some([user_id |-> 1, email |-> "a@b.com", first_name |-> "Ann"])

\* get_user_by_id: the user record on 200, None on anything else.
GetUserById(up) ==
    IF up.kind = "http" /\ up.status = 200 THEN Some(up.body) ELSE None

\* send_email: True only when the message went out; every failure is caught
\* and turned into False.
SendEmail(smtp) == smtp = "ok"

\* A decoder that swallows what it cannot decode and yields an empty object.
JsonLoadsLenient(body) ==
    IF body.enc = "json" /\ body.type = "object"
    THEN [raised |-> "none", type |-> "object", value |-> body.value]
    ELSE [raised |-> "none", type |-> "object", value |-> [ignored |-> TRUE]]

\* json.loads(message.data.decode("utf-8"))
JsonLoads(body) ==
    IF body.enc = "badutf8" THEN [raised |-> "UnicodeDecodeError"]
    ELSE IF body.enc = "badjson" THEN [raised |-> "JSONDecodeError"]
    ELSE [raised |-> "none", type |-> body.type, value |-> body.value]

\* What one run of a handler did to the message.
Handled(acks, nacks, raised, email) ==
    [acks |-> acks, nacks |-> nacks, raised |-> raised, email |-> email,
     calls |-> (IF email # "none" THEN <<"send_email">> ELSE <<>>)
               \o [i \in 1..acks |-> "ack"] \o [i \in 1..nacks |-> "nack"]]

\* The send_email call of handle_event_created: recipient, greeting, subject.
EventEmail(user) ==
    [to |-> user.email, greeting |-> DictGet(user, "first_name", "User"),
     subject |-> "Event Created"]

\* The send_email call of handle_user_created.
WelcomeEmail(data) ==
    [to |-> data.email, greeting |-> DictGet(data, "first_name", "User"),
     subject |-> "Welcome to Our Platform!"]

\* What the Users service did to the lookup of a delivery (history only).
LookupClass(up) ==
    IF up.kind # "http" \/ up.status \notin {200, 404} THEN "failed"
    ELSE IF up.status = 404 THEN "notfound"
    ELSE IF "email" \in DOMAIN up.body THEN "found" ELSE "noemail"

\* A handler that asks for redelivery when there is nothing to send.
SkipWithNack == Handled(0, 1, FALSE, "none")
\* Nothing to send: message.ack(); return
Skip == Handled(1, 0, FALSE, "none")

\* handle_event_created: the body of the try and its two except clauses.
HandleEventCreated(body, up, smtp) ==
    LET d == JsonLoads(body) IN
    IF d.raised # "none"
    THEN Handled(0, 1, TRUE, "none")          \* except ...: nack(); raise
    ELSE IF d.type # "object"
    THEN Handled(0, 1, TRUE, "none")          \* data.get raises AttributeError
    ELSE IF DictGet(d.value, "user_id", 0) = 0
    THEN Skip                                 \* no user_id: ack, return
    ELSE LET user == GetUserById(up) IN
         IF user = None
         THEN Skip                            \* user not found: ack, return
         ELSE IF DictGet(user[1], "email", "") = ""
         THEN Skip                            \* no email on file: ack, return
         ELSE IF DictGet(d.value, "event_data", Some(<<>>)) = None
         THEN Handled(0, 1, TRUE, "none")     \* event_data.get raises
         ELSE Handled(1, 0, FALSE, IF SendEmail(smtp) THEN "sent" ELSE "failed")

\* A wrapper that settles the message itself once the handler is back.
WrappedCallbackAckAlways(body, up, smtp) ==
    LET h == HandleEventCreated(body, up, smtp) IN
    [h EXCEPT !.acks = @ + 1, !.raised = FALSE, !.calls = Append(@, "ack")]

\* A wrapper that nacks and lets the exception of the handler go on.
WrappedCallbackReraising(body, up, smtp) ==
    LET h == HandleEventCreated(body, up, smtp) IN
    IF h.raised
    THEN [h EXCEPT !.nacks = @ + 1, !.calls = Append(@, "nack")]
    ELSE h

\* wrapped_callback of start_event_subscriber.
WrappedCallback(body, up, smtp) ==
    LET h == HandleEventCreated(body, up, smtp) IN
    IF h.raised
    THEN [h EXCEPT !.nacks = @ + 1, !.raised = FALSE, !.calls = Append(@, "nack")]
    ELSE h

\* handle_user_created (registered as the callback itself).
HandleUserCreated(body, smtp) ==
    LET d == JsonLoads(body) IN
    IF d.raised # "none"
    THEN Handled(0, 1, FALSE, "none")         \* except ...: nack()
    ELSE IF d.type # "object"
    THEN Handled(0, 1, FALSE, "none")         \* data.get raises AttributeError
    ELSE IF DictGet(d.value, "email", "") = ""
    THEN Skip                                 \* no email: ack, return
    ELSE Handled(1, 0, FALSE, IF SendEmail(smtp) THEN "sent" ELSE "failed")

\* The state of a delivery once the callback is back, from the settle calls.
SettleState(acks, nacks) ==
    IF acks > 0 /\ nacks > 0 THEN "both"
    ELSE IF acks > 0 THEN "acked"
    ELSE IF nacks > 0 THEN "nacked"
    ELSE "unsettled"

\* What start_subscribers can meet before it creates the threads.
StartEnvs == {"ok", "no_project", "import_error"}

\* A startup that lets a failure of start_subscribers end the application.
StartupAfterStrict(env) == IF env = "ok" THEN "serving" ELSE "crashed"
\* start_subscribers returns (early return, or "except Exception" that logs)
\* and startup_event with it: the application serves HTTP whatever was met.
StartupAfter(env) == "serving"

\* What start_event_subscriber / start_user_subscriber can meet; only the
\* event subscriber verifies its subscription with get_subscription.
ListenerStartOutcomes(sub) ==
    {"ok", "no_project", "client_error", "subscribe_error"}
    \cup (IF sub = "event-notification-sub" THEN {"verify_error"} ELSE {})

\* The thread after the start function met the outcome: blocked in
\* streaming_pull_future.result(), or returned.
ListenerAfterStart(outcome) ==
    IF outcome \in {"ok", "verify_error"} THEN "running" ELSE "ended"

InitSub ==
    /\ appPc = "startup"
    /\ startEnv = "pending"
    /\ listener = [sub \in Subs |-> "nothread"]
    /\ listenerThreads = [sub \in Subs |-> 0]
    /\ listenerEnd = [sub \in Subs |-> "none"]
    /\ cbRaised = [m \in Msgs |-> FALSE]
    /\ msgBody = [m \in Msgs |-> None]
    /\ msgState = [m \in Msgs |-> "absent"]
    /\ msgDeliveries = [m \in Msgs |-> 0]
    /\ ackCalls = [m \in Msgs |-> 0]
    /\ nackCalls = [m \in Msgs |-> 0]
    /\ emailResult = [m \in Msgs |-> "none"]
    /\ emailsSent = [m \in Msgs |-> 0]
    /\ msgCalls = [m \in Msgs |-> <<>>]
    /\ emailCall = [m \in Msgs |-> None]
    /\ msgLookup = [m \in Msgs |-> "none"]

\* startup_event -> start_subscribers up to the creation of the threads.
StartSubscribers ==
    /\ appPc = "startup"
    /\ \E env \in StartEnvs :
         /\ startEnv' = env
         /\ appPc' = IF env = "ok" THEN "event_thread" ELSE StartupAfter(env)
    /\ UNCHANGED <<listener, listenerThreads, listenerEnd>>
    /\ UNCHANGED <<msgVars, aggVars, apiVars, pubVars, tokVars, gqlVars, fwdVars, authVars>>

\* event_thread.start() / user_thread.start(): the daemon thread exists, or
\* the start raises and the except clause of start_subscribers ends it.
StartThread(sub) ==
    /\ appPc = IF sub = "event-notification-sub" THEN "event_thread" ELSE "user_thread"
    /\ \E started \in BOOLEAN :
         IF started
         THEN /\ listener' = [listener EXCEPT ![sub] = "starting"]
              /\ listenerThreads' = [listenerThreads EXCEPT ![sub] = @ + 1]
              /\ appPc' = IF sub = "event-notification-sub"
                          THEN "user_thread" ELSE StartupAfter("ok")
              /\ UNCHANGED startEnv
         ELSE /\ startEnv' = "thread_error"
              /\ appPc' = StartupAfter("thread_error")
              /\ UNCHANGED <<listener, listenerThreads>>
    /\ UNCHANGED listenerEnd
    /\ UNCHANGED <<msgVars, aggVars, apiVars, pubVars, tokVars, gqlVars, fwdVars, authVars>>

\* The thread runs start_event_subscriber / start_user_subscriber up to the
\* blocking streaming_pull_future.result(), or to its return.
ListenerStart(sub) ==
    /\ listener[sub] = "starting"
    /\ \E outcome \in ListenerStartOutcomes(sub) :
         /\ listener' = [listener EXCEPT ![sub] = ListenerAfterStart(outcome)]
         /\ listenerEnd' = [listenerEnd EXCEPT ![sub] =
                IF ListenerAfterStart(outcome) = "ended" THEN outcome ELSE "none"]
    /\ UNCHANGED <<appPc, startEnv, listenerThreads>>
    /\ UNCHANGED <<msgVars, aggVars, apiVars, pubVars, tokVars, gqlVars, fwdVars, authVars>>

\* A listener that subscribes again after its streaming pull failed.
TransportFailureRestarting(sub) ==
    /\ listener[sub] = "running"
    /\ listener' = [listener EXCEPT ![sub] = "starting"]
    /\ listenerEnd' = [listenerEnd EXCEPT ![sub] = "transport"]
    /\ UNCHANGED <<appPc, startEnv, listenerThreads>>
    /\ UNCHANGED <<msgVars, aggVars, apiVars, pubVars, tokVars, gqlVars, fwdVars, authVars>>

\* streaming_pull_future.result() raises: the error is logged, the future is
\* cancelled and the thread returns.
TransportFailure(sub) ==
    /\ listener[sub] = "running"
    /\ listener' = [listener EXCEPT ![sub] = "ended"]
    /\ listenerEnd' = [listenerEnd EXCEPT ![sub] = "transport"]
    /\ UNCHANGED <<appPc, startEnv, listenerThreads>>
    /\ UNCHANGED <<msgVars, aggVars, apiVars, pubVars, tokVars, gqlVars, fwdVars, authVars>>

\* A message is published to the topic and the transport delivers it.
Deliver(m) ==
    /\ msgState[m] = "absent"
    /\ listener[MsgSub(m)] = "running"
    /\ \E body \in Bodies(m) : msgBody' = [msgBody EXCEPT ![m] = Some(body)]
    /\ msgState' = [msgState EXCEPT ![m] = "delivered"]
    /\ msgDeliveries' = [msgDeliveries EXCEPT ![m] = 1]
    /\ UNCHANGED <<ackCalls, nackCalls, emailResult, emailsSent, msgCalls,
                   emailCall, msgLookup, cbRaised>>
    /\ UNCHANGED <<lsnVars, aggVars, apiVars, pubVars, tokVars, gqlVars, fwdVars, authVars>>

\* The subscriber's thread pool invokes the callback on the message.
CallbackStart(m) ==
    /\ msgState[m] = "delivered"
    /\ listener[MsgSub(m)] = "running"
    /\ msgState' = [msgState EXCEPT ![m] = "processing"]
    /\ UNCHANGED <<msgBody, msgDeliveries, ackCalls, nackCalls, emailResult,
                   emailsSent, msgCalls, emailCall, msgLookup, cbRaised>>
    /\ UNCHANGED <<lsnVars, aggVars, apiVars, pubVars, tokVars, gqlVars, fwdVars, authVars>>

\* The callback runs to its end.
CallbackRun(m) ==
    /\ msgState[m] = "processing"
    /\ \E up \in LookupOutcomes, smtp \in SmtpOutcomes :
         LET h == IF m = "e1"
                  THEN WrappedCallback(msgBody[m][1], up, smtp)
                  ELSE HandleUserCreated(msgBody[m][1], smtp) IN
         /\ ackCalls' = [ackCalls EXCEPT ![m] = h.acks]
         /\ nackCalls' = [nackCalls EXCEPT ![m] = h.nacks]
         /\ emailResult' = [emailResult EXCEPT ![m] = h.email]
         /\ emailsSent' = [emailsSent EXCEPT ![m] =
                IF h.email = "sent" THEN @ + 1 ELSE @]
         /\ msgCalls' = [msgCalls EXCEPT ![m] = h.calls]
         /\ cbRaised' = [cbRaised EXCEPT ![m] = h.raised]
         /\ msgLookup' = [msgLookup EXCEPT ![m] =
                IF m = "e1" THEN LookupClass(up) ELSE "none"]
         /\ emailCall' = [emailCall EXCEPT ![m] =
                IF h.email = "none" THEN None
                ELSE IF m = "e1" THEN Some(EventEmail(GetUserById(up)[1]))
                ELSE Some(WelcomeEmail(JsonLoads(msgBody[m][1]).value))]
         /\ msgState' = [msgState EXCEPT ![m] = SettleState(h.acks, h.nacks)]
    /\ UNCHANGED <<msgBody, msgDeliveries>>
    /\ UNCHANGED <<lsnVars, aggVars, apiVars, pubVars, tokVars, gqlVars, fwdVars, authVars>>

\* The transport redelivers a message that was not acknowledged.
Redeliver(m) ==
    /\ msgState[m] \in {"nacked", "unsettled"}
    /\ msgDeliveries[m] < MaxDeliveries
    /\ listener[MsgSub(m)] = "running"
    /\ msgState' = [msgState EXCEPT ![m] = "delivered"]
    /\ msgDeliveries' = [msgDeliveries EXCEPT ![m] = @ + 1]
    /\ ackCalls' = [ackCalls EXCEPT ![m] = 0]
    /\ nackCalls' = [nackCalls EXCEPT ![m] = 0]
    /\ emailResult' = [emailResult EXCEPT ![m] = "none"]
    /\ msgCalls' = [msgCalls EXCEPT ![m] = <<>>]
    /\ emailCall' = [emailCall EXCEPT ![m] = None]
    /\ msgLookup' = [msgLookup EXCEPT ![m] = "none"]
    /\ cbRaised' = [cbRaised EXCEPT ![m] = FALSE]
    /\ UNCHANGED <<msgBody, emailsSent>>
    /\ UNCHANGED <<lsnVars, aggVars, apiVars, pubVars, tokVars, gqlVars, fwdVars, authVars>>

NextSub ==
    \/ StartSubscribers
    \/ \E sub \in Subs : StartThread(sub)
    \/ \E sub \in Subs : ListenerStart(sub)
    \/ \E sub \in Subs : TransportFailure(sub)
    \/ \E m \in Msgs : Deliver(m)
    \/ \E m \in Msgs : CallbackStart(m)
    \/ \E m \in Msgs : CallbackRun(m)
    \/ \E m \in Msgs : Redeliver(m)

----------------------------------------------------------------------------
(* Claims about the subscribers (checked under SpecSub)                    *)

Settled(m) == msgState[m] \in {"acked", "nacked", "both", "unsettled"}
Malformed(m) == msgBody[m] # None /\ msgBody[m][1] \in MalformedBodies

\* C4: when send_email does not succeed for a well-formed message whose
\* recipient is known, the handler negatively acknowledges the message and
\* does not acknowledge it.
C4_EmailFailureNacks ==
    \A m \in Msgs :
        (Settled(m) /\ emailResult[m] = "failed")
        => (nackCalls[m] >= 1 /\ ackCalls[m] = 0 /\ msgState[m] = "nacked")

\* C5: a delivery whose body cannot be deserialized (invalid UTF-8, invalid
\* JSON, JSON that is not an object) gets nack and never ack, in both
\* handlers, and no email is sent for it.
C5_MalformedIsNacked ==
    \A m \in Msgs : Malformed(m) =>
        /\ ackCalls[m] = 0
        /\ emailsSent[m] = 0
        /\ emailResult[m] = "none"
        /\ msgState[m] \in {"delivered", "processing", "nacked"}
        /\ (Settled(m) => nackCalls[m] >= 1)

C5_Witness ==
    /\ msgBody["e1"] = Some([enc |-> "json", type |-> "array", value |-> <<1, 2>>])
    /\ msgBody["u1"] = Some([enc |-> "badutf8"])
    /\ \A m \in Msgs : msgState[m] = "nacked" /\ msgDeliveries[m] = MaxDeliveries

C6_Transitions ==
    { <<"absent", "delivered">>, <<"delivered", "processing">>,
      <<"processing", "acked">>, <<"processing", "nacked">>,
      <<"nacked", "delivered">> }

\* C6: every delivery follows Delivered -> Processing -> (Acked | Nacked): it
\* ends in exactly one of the two outcomes (never ack and nack together, never
\* neither), Acked is terminal, a Nacked message is redelivered and processed
\* again, and a message is in no other state.
C6_DeliveryStateMachine ==
    /\ [](\A m \in Msgs :
            /\ msgState[m] \in {"absent", "delivered", "processing", "acked", "nacked"}
            /\ (msgState[m] \in {"absent", "delivered", "processing"}
                  => ackCalls[m] = 0 /\ nackCalls[m] = 0)
            /\ (msgState[m] = "acked" => ackCalls[m] >= 1 /\ nackCalls[m] = 0)
            /\ (msgState[m] = "nacked" => nackCalls[m] >= 1 /\ ackCalls[m] = 0))
    /\ [][\A m \in Msgs :
            msgState'[m] # msgState[m]
            => <<msgState[m], msgState'[m]>> \in C6_Transitions]_vars

C6_Witness ==
    /\ msgState["e1"] = "acked" /\ msgDeliveries["e1"] = MaxDeliveries
    /\ msgState["u1"] = "processing" /\ msgDeliveries["u1"] = MaxDeliveries

UserCreatedProcessed(m) ==
    /\ m = "u1"
    /\ msgBody[m] = Some(PublishedUserCreated)
    /\ Settled(m)

\* C16 (as claimed): the user-created message publish_user_created writes for
\* {user_id 42, email "a@b.com", first_name "Ann"}, delivered once with a
\* working SMTP side, gives exactly one send_email to "a@b.com" greeting
\* "Ann", followed by exactly one ack; and the fields the publisher wrote
\* are exactly the fields the handler reads.
C16_PublishedFieldsExactlyRead ==
    \A m \in Msgs :
        (UserCreatedProcessed(m) /\ emailResult[m] # "failed")
        => /\ msgCalls[m] = <<"send_email", "ack">>
           /\ emailCall[m] # None
           /\ emailCall[m][1].to = "a@b.com" /\ emailCall[m][1].greeting = "Ann"
           /\ DOMAIN msgBody[m][1].value = UserCreatedKeysRead

\* C16 (amended): the same delivery gives exactly one send_email to "a@b.com"
\* greeting "Ann", followed by exactly one ack and no nack, on its first
\* delivery and with no redelivery; every field the handler reads is a field
\* the publisher wrote, and the publisher writes two more (event_type and
\* timestamp) the handler never reads.
C16_PublishThenWelcome ==
    \A m \in Msgs :
        (UserCreatedProcessed(m) /\ emailResult[m] # "failed")
        => /\ msgCalls[m] = <<"send_email", "ack">>
           /\ emailCall[m] # None
           /\ emailCall[m][1].to = "a@b.com" /\ emailCall[m][1].greeting = "Ann"
           /\ emailsSent[m] = 1
           /\ msgState[m] = "acked" /\ msgDeliveries[m] = 1
           /\ UserCreatedKeysRead \subseteq DOMAIN msgBody[m][1].value
           /\ DOMAIN msgBody[m][1].value \ UserCreatedKeysRead
                 = {"event_type", "timestamp"}

C16_Witness ==
    /\ UserCreatedProcessed("u1")
    /\ emailResult["u1"] = "sent"
    /\ msgCalls["u1"] = <<"send_email", "ack">>

\* The body of m is a JSON object.
WellFormed(m) == msgBody[m] # None /\ msgBody[m][1] \notin MalformedBodies

\* The nothing-to-do cases: an event-created message without user_id, or whose
\* user the Users service does not know (404) or holds without an email; a
\* user-created message without email.
NothingToDo(m) ==
    /\ WellFormed(m)
    /\ Settled(m)
    /\ IF m = "e1"
       THEN \/ "user_id" \notin DOMAIN msgBody[m][1].value
            \/ msgLookup[m] \in {"notfound", "noemail"}
       ELSE "email" \notin DOMAIN msgBody[m][1].value

\* C17: a delivery of a nothing-to-do case is acknowledged exactly once, never
\* negatively acknowledged, and no send_email call is made for it.
C17_NothingToDoIsAcked ==
    \A m \in Msgs : NothingToDo(m) =>
        /\ msgCalls[m] = <<"ack">>
        /\ ackCalls[m] = 1 /\ nackCalls[m] = 0
        /\ msgState[m] = "acked"
        /\ emailResult[m] = "none" /\ emailCall[m] = None
        /\ emailsSent[m] = 0

C17_Witness ==
    /\ NothingToDo("e1") /\ msgLookup["e1"] = "noemail"
    /\ "user_id" \in DOMAIN msgBody["e1"][1].value
    /\ NothingToDo("u1")

\* C31: in handle_event_created a user lookup that fails otherwise than by a
\* 404 (timeout, connection error, a 5xx or another non-200 status) is handled
\* like user-not-found: the delivery is acknowledged once, no send_email call
\* is made, and the message is not redelivered.
C31_LookupFailureIsNotFound ==
    (/\ WellFormed("e1") /\ Settled("e1")
     /\ "user_id" \in DOMAIN msgBody["e1"][1].value
     /\ msgLookup["e1"] = "failed")
    => /\ msgCalls["e1"] = <<"ack">>
       /\ msgState["e1"] = "acked"
       /\ emailResult["e1"] = "none" /\ emailCall["e1"] = None
       /\ emailsSent["e1"] = 0
       /\ ~ENABLED Redeliver("e1")

C31_Witness ==
    /\ WellFormed("e1") /\ Settled("e1")
    /\ "user_id" \in DOMAIN msgBody["e1"][1].value
    /\ msgLookup["e1"] = "failed"
    /\ msgDeliveries["e1"] = 1
    /\ listener["event-notification-sub"] = "running"

\* The listener of sub stays ended, no thread is created for it, and the rest
\* of the process is not touched by its end.
ListenerStaysEnded ==
    [][\A sub \in Subs :
        /\ listenerEnd[sub] = "transport"
           => /\ listener[sub] = "ended" /\ listener'[sub] = "ended"
              /\ listenerEnd'[sub] = "transport"
              /\ listenerThreads'[sub] = listenerThreads[sub]
        /\ (listener[sub] = "running" /\ listener'[sub] = "ended")
           => /\ appPc' = appPc
              /\ \A other \in Subs \ {sub} : listener'[other] = listener[other]]_vars

\* While the other listener runs, its messages are still delivered and handed
\* to the callback.
OtherListenerServes ==
    \A m \in Msgs :
        listener[MsgSub(m)] = "running" =>
            /\ msgState[m] = "absent" => ENABLED Deliver(m)
            /\ msgState[m] = "delivered" => ENABLED CallbackStart(m)

\* C37 (as claimed): after the streaming pull of a subscription ended with an
\* error the listener thread has exited and is never restarted, and from then
\* on no message of that subscription is handled: no ack and no nack is
\* called on it and its state does not change; the rest of the process and
\* the other listener go on.
C37_NothingSettledAfterExit ==
    /\ ListenerStaysEnded
    /\ []OtherListenerServes
    /\ [][\A m \in Msgs :
            listenerEnd[MsgSub(m)] = "transport"
            => /\ msgState'[m] = msgState[m]
               /\ ackCalls'[m] = ackCalls[m] /\ nackCalls'[m] = nackCalls[m]
               /\ msgCalls'[m] = msgCalls[m]]_vars

\* C37 (amended): after the streaming pull of a subscription ended with an
\* error the listener thread has exited and is never restarted, and from then
\* on no message of that subscription is delivered, redelivered or handed to
\* the callback; only a callback that was already running when the pull ended
\* runs to its end and makes its settle call; the rest of the process and the
\* other listener go on.
C37_NothingDeliveredAfterExit ==
    /\ ListenerStaysEnded
    /\ []OtherListenerServes
    /\ [](\A m \in Msgs :
            listenerEnd[MsgSub(m)] = "transport"
            => /\ ~ENABLED Deliver(m)
               /\ ~ENABLED CallbackStart(m)
               /\ ~ENABLED Redeliver(m))
    /\ [][\A m \in Msgs :
            listenerEnd[MsgSub(m)] = "transport"
            => /\ msgDeliveries'[m] = msgDeliveries[m]
               /\ msgState'[m] # msgState[m] => msgState[m] = "processing"
               /\ msgCalls'[m] # msgCalls[m] => msgState[m] = "processing"]_vars

C37_Witness ==
    /\ listenerEnd["event-notification-sub"] = "transport"
    /\ msgState["e1"] = "nacked" /\ msgDeliveries["e1"] = 1
    /\ listener["user-welcome-sub"] = "running"
    /\ msgState["u1"] = "acked"
    /\ appPc = StartupAfter("ok")

\* C18: no exception leaves the subscriber callback, whatever the handling
\* met (decode error, lookup error, missing event_data, email error); after a
\* handled delivery the listener of the subscription is still running unless
\* its streaming pull failed, and a nacked first delivery is followed by a
\* second delivery that is processed to its end; a running listener ends only
\* by a failure of the streaming pull, never in a step of a callback.
C18_CallbackNeverRaises ==
    /\ [](\A m \in Msgs :
            /\ ~cbRaised[m]
            /\ (Settled(m) /\ listenerEnd[MsgSub(m)] = "none"
                  => listener[MsgSub(m)] = "running"))
    /\ [][\A sub \in Subs :
            (listener[sub] = "running" /\ listener'[sub] # "running")
            => (listenerEnd'[sub] = "transport" /\ msgVars' = msgVars)]_vars
    /\ \A m \in Msgs :
            (msgState[m] = "nacked" /\ msgDeliveries[m] = 1)
            ~> (\/ Settled(m) /\ msgDeliveries[m] = 2
                \/ listener[MsgSub(m)] = "ended")

C18_Witness ==
    /\ Malformed("e1") /\ Settled("e1") /\ msgDeliveries["e1"] = 2
    /\ nackCalls["e1"] >= 1
    /\ listener["event-notification-sub"] = "running"
    /\ listenerEnd["user-welcome-sub"] = "transport"

\* C19: startup completes and the application serves HTTP from then on for
\* every outcome of start_subscribers and of the two start functions (project
\* id unset, import failure, thread start failure, subscriber client or
\* subscription error); at most one listener thread is created per
\* subscription; and a listener that ends leaves the other listener and the
\* application as they were.
C19_StartupAlwaysServes ==
    /\ <>[](appPc = "serving")
    /\ [](appPc # "crashed")
    /\ [](\A sub \in Subs :
            /\ listenerThreads[sub] <= 1
            /\ (listener[sub] # "nothread" <=> listenerThreads[sub] = 1))
    /\ [][\A sub \in Subs :
            (listener'[sub] = "ended" /\ listener[sub] # "ended")
            => /\ \A other \in Subs \ {sub} : listener'[other] = listener[other]
               /\ appPc' = appPc]_vars

C19_Witness ==
    /\ appPc = "serving"
    /\ listenerEnd["event-notification-sub"] = "client_error"
    /\ listener["event-notification-sub"] = "ended"
    /\ listener["user-welcome-sub"] = "running"
    /\ msgState["u1"] = "acked"

\* C30: for every delivery of a message on either subscription, once the
\* callback has run, the settle calls made on the message (ack plus nack) are
\* exactly one: a failure of handle_event_created is not nacked by both the
\* handler and wrapped_callback.
C30_ExactlyOneSettleCall ==
    \A m \in Msgs : Settled(m) => ackCalls[m] + nackCalls[m] = 1

----------------------------------------------------------------------------
(* create_event, sync_user, get_event_task_status, the publishers and      *)
(* get_user_id_from_firebase_uid                                           *)

\* Two inbound calls of the same subject, one after the other or overlapping.
ApiReqs == {"a1", "a2"}
ApiKinds ==
    {"create_event", "create_event_async", "create_post", "sync_user",
     "task_status", "search_users", "resolve"}

\* The handlers that resolve the caller and stamp created_by on the body.
CreateKinds == {"create_event", "create_event_async", "create_post"}

\* Bodies of a create request: created_by left out, or set by the client to
\* another user's id or to an id that may be the caller's own.
CreateBodies ==
    { [title |-> "t"], [title |-> "t", created_by |-> 7],
      [title |-> "t", created_by |-> 1] }

\* A handler that keeps a created_by the client supplied.
SetCreatedByDefault(body, user_id) ==
    IF "created_by" \in DOMAIN body THEN body ELSE DictSet(body, "created_by", user_id)

\* event["created_by"] = user_id (post["created_by"] = user_id)
SetCreatedBy(body, user_id) == DictSet(body, "created_by", user_id)
Subject == "uidA"

\* The q query parameter of an inbound request: absent, blank or a word.
Queries == {None, Some(<<" ">>), Some(<<"a", "n", "n">>)}

\* q.strip(): the string without its leading and trailing blanks.
RECURSIVE Strip(_)
Strip(str) ==
    IF str = <<>> THEN <<>>
    ELSE IF Head(str) = " " THEN Strip(Tail(str))
    ELSE IF str[Len(str)] = " " THEN Strip(SubSeq(str, 1, Len(str) - 1))
    ELSE str

\* A handler entry that trusts the request without looking for an identity.
EntryResponseTrusting(kind, firebase_uid, q) ==
    IF kind = "search_users" /\ (q = None \/ Len(Strip(q[1])) < 1)
    THEN Some([status |-> 422, detail |-> "Query parameter 'q' is required"])
    ELSE None

\* The first statements of a handler: search_users validates q (422) before it
\* looks for the identity; every handler raises 401 from
\* get_firebase_uid_from_request when the request carries none. None when the
\* handler goes on.
EntryResponse(kind, firebase_uid, q) ==
    IF kind = "resolve" THEN None
    ELSE IF kind = "search_users" /\ (q = None \/ Len(Strip(q[1])) < 1)
    THEN Some([status |-> 422, detail |-> "Query parameter 'q' is required"])
    ELSE IF firebase_uid = None
    THEN Some([status |-> 401, detail |-> "Authentication required"])
    ELSE None

\* Strings the code splits are sequences of characters.
Email_c_d == <<"c", "@", "d", ".", "c", "o", "m">>
Name_Cara_D == <<"C", "a", "r", "a", " ", "D">>
Name_Cara == <<"C", "a", "r", "a">>
Name_A__B_C == <<"A", " ", " ", "B", " ", "C">>
Name_Blank == <<" ">>

\* decoded_token of a direct call of get_user_id_from_firebase_uid.
Tokens ==
    { [email |-> Email_c_d, name |-> Name_Cara_D],
      [email |-> Email_c_d, name |-> <<>>],
      [email |-> <<>>, name |-> Name_Cara],
      [email |-> Email_c_d, name |-> Name_A__B_C],
      [email |-> Email_c_d, name |-> Name_Blank] }

\* str.split(): the maximal runs of non-blank characters.
RECURSIVE SplitFrom(_, _, _)
SplitFrom(str, i, cur) ==
    IF i > Len(str)
    THEN IF cur = <<>> THEN <<>> ELSE <<cur>>
    ELSE IF str[i] = " "
    THEN (IF cur = <<>> THEN <<>> ELSE <<cur>>) \o SplitFrom(str, i + 1, <<>>)
    ELSE SplitFrom(str, i + 1, Append(cur, str[i]))
Split(str) == SplitFrom(str, 1, <<>>)

\* " ".join(parts)
RECURSIVE JoinSpace(_)
JoinSpace(parts) ==
    IF parts = <<>> THEN <<>>
    ELSE IF Len(parts) = 1 THEN parts[1]
    ELSE parts[1] \o <<" ">> \o JoinSpace(Tail(parts))

\* email.split("@")[0]
RECURSIVE LocalPartFrom(_, _)
LocalPartFrom(email, i) ==
    IF i > Len(email) \/ email[i] = "@" THEN <<>>
    ELSE <<email[i]>> \o LocalPartFrom(email, i + 1)
LocalPart(email) == LocalPartFrom(email, 1)

\* sync_data with the names left empty when the display name has no token.
ProvisioningRecordNoFallback(token) ==
    LET name_parts == IF token.name # <<>> THEN Split(token.name) ELSE <<>> IN
    [first_name |-> IF name_parts # <<>> THEN name_parts[1] ELSE <<>>,
     last_name |-> IF Len(name_parts) > 1 THEN JoinSpace(Tail(name_parts)) ELSE <<>>,
     username |-> LocalPart(token.email),
     email |-> token.email]

\* sync_data of the auto-sync.
ProvisioningRecord(token) ==
    LET name_parts == IF token.name # <<>> THEN Split(token.name) ELSE <<>> IN
    [first_name |-> IF name_parts # <<>> THEN name_parts[1] ELSE LocalPart(token.email),
     last_name |-> IF Len(name_parts) > 1 THEN JoinSpace(Tail(name_parts)) ELSE <<>>,
     username |-> LocalPart(token.email),
     email |-> token.email]

\* The decoded_token argument each caller passes to the resolution: create_event
\* calls get_user_id_from_firebase_uid(firebase_uid, None, None).
DecodedTokenArg(kind, token) == IF kind = "resolve" THEN Some(token) ELSE None

\* An auto-sync attempted after any failed lookup.
NeedsSyncOnAnyFailure(status, decoded_token) ==
    /\ status # 200
    /\ decoded_token # None
    /\ decoded_token[1].email # <<>>

\* "if response.status_code == 404 and decoded_token: ... if email:"
NeedsSync(status, decoded_token) ==
    /\ status = 404
    /\ decoded_token # None
    /\ decoded_token[1].email # <<>>

\* The Users service's records of a subject.
UsersOf(uid) == {u \in users : u.uid = uid}

\* GET /users/me for the subject: its record, 404 when it has none, or a fault.
LookupResponses(uid) ==
    (IF UsersOf(uid) # {}
     THEN {[status |-> 200, user_id |-> u.user_id] : u \in UsersOf(uid)}
     ELSE {[status |-> 404, user_id |-> 0]})
    \cup {[status |-> 500, user_id |-> 0], [status |-> 0, user_id |-> 0]}

\* POST /users/sync at the Users service: a new record for a new subject; for a
\* subject that has one the create is rejected, or the record is returned.
UsersSyncResponses(uid) ==
    IF UsersOf(uid) = {}
    THEN {[status |-> 201, body |-> [status |-> "created",
                                     user_id |-> Cardinality(users) + 1]],
          [status |-> 500, body |-> [detail |-> "error"]]}
    ELSE {[status |-> 409, body |-> [detail |-> "exists"]]}
         \cup {[status |-> 200, body |-> [status |-> "exists", user_id |-> u.user_id]] :
                 u \in UsersOf(uid)}

\* The Users service's records after it answered a sync.
UsersAfterSync(uid, resp, data) ==
    IF resp.status = 201
    THEN users \cup {[uid |-> uid, user_id |-> resp.body.user_id,
                      first_name |-> data.first_name, last_name |-> data.last_name,
                      username |-> data.username,
                      email |-> DictGet(data, "email", <<>>)]}
    ELSE users

\* forward_request that hands the parsed body back whatever the status was.
ForwardRequestNoRaise(method, up) ==
    IF up.kind # "http"
    THEN [raised |-> FALSE, result |-> <<>>]
    ELSE [raised |-> FALSE, result |-> up.body]

\* forward_request: raise_for_status turns a status >= 400 into an
\* HTTPException of that status, a transport error into a 503.
ForwardRequest(method, up) ==
    IF up.kind # "http"
    THEN [raised |-> TRUE, status |-> 503,
          detail |-> "Cannot connect to atomic service"]
    ELSE IF up.status >= 400
    THEN [raised |-> TRUE, status |-> up.status,
          detail |-> DictGet(up.body, "detail", "Atomic service error")]
    ELSE [raised |-> FALSE, result |-> up.body]

\* What a publish attempt can meet.
PublishEnvs ==
    {"ok", "import_error", "not_initialised", "no_project", "topic_path_error",
     "serialisation_error", "transport_error", "timeout_lost", "timeout_sent"}

\* publish_event_created / publish_user_created: a message id, None after a
\* fault the publisher logs, or an exception (the import in the handler, or
\* json.dumps outside the publisher's try); sent tells whether the message
\* reached the topic.
Publish(env) ==
    IF env = "ok"
    THEN [raised |-> FALSE, message_id |-> Some("id"), sent |-> TRUE]
    ELSE IF env \in {"import_error", "serialisation_error"}
    THEN [raised |-> TRUE, message_id |-> None, sent |-> FALSE]
    ELSE [raised |-> FALSE, message_id |-> None, sent |-> env = "timeout_sent"]

\* A handler that lets an exception of the publish reach the client.
RespondAfterPublishPropagating(status, result, pub) ==
    IF pub.raised
    THEN [status |-> 500, detail |-> "Internal Server Error"]
    ELSE [status |-> status, body |-> result]

\* The handler's answer after the publish attempt: "except Exception" around
\* the publish, then "return result".
RespondAfterPublish(status, result, pub) ==
    [status |-> status, body |-> result]

\* A sync_user that announces every user the Users service answers with.
WantsPublishAnySync(kind, result, user_data) ==
    IF kind = "create_event" THEN "event_id" \in DOMAIN result
    ELSE IF kind = "sync_user"
    THEN DictGet(result, "user_id", 0) # 0
    ELSE IF kind \in {"search_users", "create_post", "create_event_async"} THEN FALSE
    ELSE /\ DictGet(result, "status", "") = "completed"
         /\ DictGet(result, "event", None) # None
         /\ DictGet(result.event[1], "event_id", 0) # 0
         /\ DictGet(result.event[1], "created_by", 0) # 0

\* A task-status handler that leaves the publish to the create request.
WantsPublishCreateOnly(kind, result, user_data) ==
    IF kind = "create_event" THEN "event_id" \in DOMAIN result
    ELSE IF kind = "sync_user"
    THEN /\ DictGet(result, "status", "") = "created"
         /\ DictGet(result, "user_id", 0) # 0
         /\ DictGet(user_data, "email", <<>>) # <<>>
    ELSE FALSE

\* Whether the handler attempts a publish for the upstream result.
WantsPublish(kind, result, user_data) ==
    IF kind = "create_event" THEN "event_id" \in DOMAIN result
    ELSE IF kind = "sync_user"
    THEN /\ DictGet(result, "status", "") = "created"
         /\ DictGet(result, "user_id", 0) # 0
         /\ DictGet(user_data, "email", <<>>) # <<>>
    ELSE IF kind \in {"search_users", "create_post", "create_event_async"} THEN FALSE
    ELSE /\ DictGet(result, "status", "") = "completed"
         /\ DictGet(result, "event", None) # None
         /\ DictGet(result.event[1], "event_id", 0) # 0
         /\ DictGet(result.event[1], "created_by", 0) # 0

\* The message the handler hands to the publisher.
PublishedMessage(r, kind, result, user_id) ==
    IF kind = "create_event"
    THEN [req |-> r, topic |-> "event-created", event_id |-> result.event_id,
          user_id |-> user_id]
    ELSE IF kind = "sync_user"
    THEN [req |-> r, topic |-> "user-created", event_id |-> 0,
          user_id |-> result.user_id]
    ELSE [req |-> r, topic |-> "event-created",
          event_id |-> result.event[1].event_id,
          user_id |-> result.event[1].created_by]

SuccessStatus(kind) ==
    IF kind \in {"task_status", "search_users"} THEN 200
    ELSE IF kind = "create_event_async" THEN 202 ELSE 201

\* Request body of POST /api/users/sync.
SyncUserData ==
    [first_name |-> Name_Cara, last_name |-> <<"D">>, username |-> <<"c">>,
     email |-> Email_c_d]

\* Request bodies of POST /api/users/sync: with an email, and without one.
SyncBodies ==
    { SyncUserData,
      [first_name |-> Name_Cara, last_name |-> <<"D">>, username |-> <<"c">>] }

\* What the upstream called by the handler can answer.
UpstreamResponses(kind, user_id) ==
    IF kind = "create_event"
    THEN { [kind |-> "http", status |-> 201,
            body |-> [event_id |-> Cardinality(events) + 1, created_by |-> user_id]],
           [kind |-> "http", status |-> 201, body |-> [message |-> "accepted"]],
           [kind |-> "http", status |-> 409,
            body |-> [detail |-> "conflict", event_id |-> 1]],
           [kind |-> "http", status |-> 500, body |-> <<>>],
           [kind |-> "timeout"], [kind |-> "unreachable"] }
    ELSE IF kind = "create_event_async"
    THEN { [kind |-> "http", status |-> 202, body |-> [task_id |-> "t1"]],
           [kind |-> "http", status |-> 500, body |-> <<>>],
           [kind |-> "timeout"] }
    ELSE IF kind = "create_post"
    THEN { [kind |-> "http", status |-> 201,
            body |-> [post_id |-> 1, created_by |-> user_id]],
           [kind |-> "http", status |-> 500, body |-> <<>>],
           [kind |-> "unreachable"] }
    ELSE IF kind = "sync_user"
    THEN { [kind |-> "http", status |-> x.status, body |-> x.body] :
             x \in UsersSyncResponses(Subject) }
         \cup {[kind |-> "timeout"]}
    ELSE IF kind = "search_users"
    THEN { [kind |-> "http", status |-> 200, body |-> [found |-> <<1>>]],
           [kind |-> "http", status |-> 500, body |-> [detail |-> "error"]],
           [kind |-> "unreachable"] }
    ELSE { [kind |-> "http", status |-> 200, body |-> [status |-> "pending"]],
           [kind |-> "http", status |-> 200,
            body |-> [status |-> "completed",
                      event |-> Some([event_id |-> 1, created_by |-> 1])]],
           [kind |-> "http", status |-> 200,
            body |-> [status |-> "completed", event |-> None]],
           [kind |-> "http", status |-> 200,
            body |-> [status |-> "completed", event |-> Some([event_id |-> 1])]],
           [kind |-> "http", status |-> 404, body |-> [detail |-> "Task not found"]],
           [kind |-> "unreachable"] }

InitApi ==
    /\ users = {}
    /\ events = {}
    /\ published = {}
    /\ apiKind = [r \in ApiReqs |-> "resolve"]
    /\ apiPc = [r \in ApiReqs |-> "idle"]
    /\ apiUserId = [r \in ApiReqs |-> None]
    /\ apiSyncSent = [r \in ApiReqs |-> 0]
    /\ apiAfterCreate = [r \in ApiReqs |-> FALSE]
    /\ apiLookup = [r \in ApiReqs |-> 0]
    /\ apiUpstream = [r \in ApiReqs |-> "none"]
    /\ apiResult = [r \in ApiReqs |-> None]
    /\ apiPub = [r \in ApiReqs |-> "none"]
    /\ apiResponse = [r \in ApiReqs |-> None]
    /\ apiIdentity = [r \in ApiReqs |-> TRUE]
    /\ apiQuery = [r \in ApiReqs |-> None]
    /\ apiCalls = [r \in ApiReqs |-> 0]
    /\ apiToken = [r \in ApiReqs |-> None]
    /\ apiBody = [r \in ApiReqs |-> None]
    /\ apiSent = [r \in ApiReqs |-> None]

\* A request (or a direct call of the resolution) starts.
ApiStart(r) ==
    /\ apiPc[r] = "idle"
    /\ \E kind \in ApiKinds, has_uid \in BOOLEAN, q \in Queries :
         LET e == EntryResponse(kind, IF has_uid THEN Some(Subject) ELSE None, q) IN
         /\ kind = "resolve" => has_uid
         /\ kind # "search_users" => q = None
         /\ apiKind' = [apiKind EXCEPT ![r] = kind]
         /\ apiIdentity' = [apiIdentity EXCEPT ![r] = has_uid]
         /\ apiQuery' = [apiQuery EXCEPT ![r] = q]
         /\ IF kind \in CreateKinds
            THEN \E body \in CreateBodies : apiBody' = [apiBody EXCEPT ![r] = Some(body)]
            ELSE IF kind = "sync_user"
            THEN \E body \in SyncBodies : apiBody' = [apiBody EXCEPT ![r] = Some(body)]
            ELSE apiBody' = [apiBody EXCEPT ![r] = None]
         /\ IF e # None
            THEN /\ apiPc' = [apiPc EXCEPT ![r] = "done"]
                 /\ apiResponse' = [apiResponse EXCEPT ![r] = e]
            ELSE /\ apiPc' = [apiPc EXCEPT ![r] =
                        IF kind \in CreateKinds \cup {"resolve"}
                        THEN "lookup" ELSE "forward"]
                 /\ UNCHANGED apiResponse
    /\ apiAfterCreate' = [apiAfterCreate EXCEPT ![r] = UsersOf(Subject) # {}]
    /\ UNCHANGED <<users, events, published, apiUserId, apiSyncSent, apiLookup,
                   apiUpstream, apiResult, apiPub, apiCalls, apiToken, apiSent>>
    /\ UNCHANGED <<aggVars, subVars, pubVars, tokVars, gqlVars, fwdVars, authVars>>

\* The detail of the 404 of create_event and create_post.
ProfileDetail ==
    "User not found. Please complete your profile setup first by visiting your profile page."

\* A handler that goes on to its create call whatever the resolution gave.
ResolvedUnchecked(r, user_id) ==
    /\ apiUserId' = [apiUserId EXCEPT ![r] = user_id]
    /\ IF apiKind[r] = "resolve"
       THEN /\ apiPc' = [apiPc EXCEPT ![r] = "done"]
            /\ apiResponse' = [apiResponse EXCEPT ![r] = Some([returned |-> user_id])]
       ELSE /\ apiPc' = [apiPc EXCEPT ![r] = "forward"]
            /\ UNCHANGED apiResponse

\* The resolution is back with user_id (None when there is none): a direct call
\* returns it; create_event and create_post answer 404 without a user.
Resolved(r, user_id) ==
    /\ apiUserId' = [apiUserId EXCEPT ![r] = user_id]
    /\ IF apiKind[r] = "resolve"
       THEN /\ apiPc' = [apiPc EXCEPT ![r] = "done"]
            /\ apiResponse' = [apiResponse EXCEPT ![r] = Some([returned |-> user_id])]
       ELSE IF user_id = None
       THEN /\ apiPc' = [apiPc EXCEPT ![r] = "done"]
            /\ apiResponse' = [apiResponse EXCEPT ![r] =
                   Some([status |-> 404, detail |-> ProfileDetail])]
       ELSE /\ apiPc' = [apiPc EXCEPT ![r] = "forward"]
            /\ UNCHANGED apiResponse

\* get_user_id_from_firebase_uid up to the answer of GET /users/me.
ResolveLookup(r, token) ==
    /\ apiPc[r] = "lookup"
    /\ \E resp \in LookupResponses(Subject) :
         /\ apiLookup' = [apiLookup EXCEPT ![r] = resp.status]
         /\ IF resp.status = 200
            THEN Resolved(r, Some(resp.user_id))
            ELSE IF NeedsSync(resp.status, DecodedTokenArg(apiKind[r], token))
            THEN /\ apiPc' = [apiPc EXCEPT ![r] = "sync"]
                 /\ apiResult' = [apiResult EXCEPT ![r] = Some(ProvisioningRecord(token))]
                 /\ apiToken' = [apiToken EXCEPT ![r] = Some(token)]
                 /\ UNCHANGED <<apiUserId, apiResponse>>
            ELSE Resolved(r, None)
         /\ IF apiPc'[r] # "sync" THEN UNCHANGED <<apiResult, apiToken>> ELSE TRUE
    /\ apiCalls' = [apiCalls EXCEPT ![r] = @ + 1]
    /\ UNCHANGED <<users, events, published, apiKind, apiSyncSent, apiAfterCreate,
                   apiUpstream, apiPub, apiIdentity, apiQuery, apiBody, apiSent>>
    /\ UNCHANGED <<aggVars, subVars, pubVars, tokVars, gqlVars, fwdVars, authVars>>

\* The auto-sync: POST /users/sync with sync_data, and the rest of the function.
ResolveSync(r) ==
    /\ apiPc[r] = "sync"
    /\ apiSyncSent' = [apiSyncSent EXCEPT ![r] = @ + 1]
    /\ \E resp \in UsersSyncResponses(Subject) \cup {[status |-> 0, body |-> <<>>]} :
         /\ users' = UsersAfterSync(Subject, resp, apiResult[r][1])
         /\ IF resp.status \in {200, 201}
            THEN Resolved(r, Some(resp.body.user_id))
            ELSE Resolved(r, None)
    /\ apiResult' = [apiResult EXCEPT ![r] = None]
    /\ apiCalls' = [apiCalls EXCEPT ![r] = @ + 1]
    /\ UNCHANGED <<events, published, apiKind, apiAfterCreate, apiLookup,
                   apiUpstream, apiPub, apiIdentity, apiQuery, apiToken, apiBody,
                   apiSent>>
    /\ UNCHANGED <<aggVars, subVars, pubVars, tokVars, gqlVars, fwdVars, authVars>>

\* The handler forwards its call upstream and, once the answer is there, runs to
\* its end: the error of forward_request, or the publish attempt and the answer.
Forward(r) ==
    /\ apiPc[r] = "forward"
    /\ LET kind == apiKind[r]
           uid == IF apiUserId[r] = None THEN 0 ELSE apiUserId[r][1] IN
       \E up \in UpstreamResponses(kind, uid), env \in PublishEnvs :
         LET f == ForwardRequest(IF kind \in {"task_status", "search_users"}
                                     THEN "GET" ELSE "POST", up)
             ok == up.kind = "http" /\ up.status < 400 IN
         /\ apiUpstream' = [apiUpstream EXCEPT ![r] = IF ok THEN "ok" ELSE "failed"]
         /\ events' = IF kind = "create_event" /\ ok /\ "event_id" \in DOMAIN up.body
                      THEN events \cup {up.body} ELSE events
         /\ users' = IF kind = "sync_user" /\ up.kind = "http"
                     THEN UsersAfterSync(Subject, up, apiBody[r][1]) ELSE users
         /\ IF f.raised
            THEN /\ apiResponse' = [apiResponse EXCEPT ![r] =
                        Some([status |-> f.status, detail |-> f.detail])]
                 /\ env = "ok"
                 /\ UNCHANGED <<published, apiResult, apiPub>>
            ELSE /\ apiResult' = [apiResult EXCEPT ![r] = Some(f.result)]
                 /\ IF WantsPublish(kind, f.result,
                                    IF kind = "sync_user" THEN apiBody[r][1] ELSE <<>>)
                    THEN LET pub == Publish(env) IN
                         /\ apiPub' = [apiPub EXCEPT ![r] = env]
                         /\ published' = IF pub.sent
                               THEN published \cup {PublishedMessage(r, kind, f.result, uid)}
                               ELSE published
                         /\ apiResponse' = [apiResponse EXCEPT ![r] =
                                Some(RespondAfterPublish(SuccessStatus(kind), f.result, pub))]
                    ELSE /\ env = "ok"
                         /\ UNCHANGED <<published, apiPub>>
                         /\ apiResponse' = [apiResponse EXCEPT ![r] =
                                Some([status |-> SuccessStatus(kind), body |-> f.result])]
    /\ apiSent' = [apiSent EXCEPT ![r] =
           IF apiKind[r] \in CreateKinds
           THEN Some(SetCreatedBy(apiBody[r][1], apiUserId[r][1])) ELSE None]
    /\ apiPc' = [apiPc EXCEPT ![r] = "done"]
    /\ apiCalls' = [apiCalls EXCEPT ![r] = @ + 1]
    /\ UNCHANGED <<apiKind, apiUserId, apiSyncSent, apiAfterCreate, apiLookup,
                   apiIdentity, apiQuery, apiToken, apiBody>>
    /\ UNCHANGED <<aggVars, subVars, pubVars, tokVars, gqlVars, fwdVars, authVars>>

\* The Users service gets the record of the subject from another client (the
\* profile page talks to it through another instance of this service).
UsersRegister ==
    /\ UsersOf(Subject) = {}
    /\ users' = users \cup {[uid |-> Subject, user_id |-> Cardinality(users) + 1,
                              first_name |-> SyncUserData.first_name,
                              last_name |-> SyncUserData.last_name,
                              username |-> SyncUserData.username,
                              email |-> SyncUserData.email]}
    /\ UNCHANGED <<events, published, apiKind, apiPc, apiUserId, apiSyncSent,
                   apiAfterCreate, apiLookup, apiUpstream, apiResult, apiPub,
                   apiResponse, apiIdentity, apiQuery, apiCalls, apiToken,
                   apiBody, apiSent>>
    /\ UNCHANGED <<aggVars, subVars, pubVars, tokVars, gqlVars, fwdVars, authVars>>

NextApi ==
    \/ UsersRegister
    \/ \E r \in ApiReqs : ApiStart(r)
    \/ \E r \in ApiReqs, token \in Tokens : ResolveLookup(r, token)
    \/ \E r \in ApiReqs : ResolveSync(r)
    \/ \E r \in ApiReqs : Forward(r)

----------------------------------------------------------------------------
(* Claims about the create endpoints and the resolution (checked under     *)
(* SpecApi)                                                                *)

PublishedBy(r) == {p \in published : p.req = r}

\* C7: an event-created message (create_event) or a user-created message
\* (sync_user) is published only after the upstream create of that request
\* returned success: a request whose create failed publishes nothing, and a
\* published message tells of a record the upstream holds.
C7_PublishOnlyAfterCreate ==
    \A r \in ApiReqs : apiKind[r] \in {"create_event", "sync_user"} =>
        /\ (apiUpstream[r] # "ok" => PublishedBy(r) = {})
        /\ \A p \in PublishedBy(r) :
             IF apiKind[r] = "create_event"
             THEN \E e \in events : e.event_id = p.event_id
             ELSE \E u \in users : u.user_id = p.user_id

C7_Witness ==
    /\ apiKind["a1"] = "sync_user" /\ PublishedBy("a1") # {}
    /\ apiKind["a2"] = "create_event" /\ apiPc["a2"] = "done"
    /\ apiUpstream["a2"] = "failed" /\ apiResponse["a2"][1].status = 409

\* C8: the response of create_event, sync_user and get_event_task_status is
\* the upstream result with the success status whatever the publish attempt
\* met (a message id, None, or an exception), and the created record stays.
C8_PublishNeverFailsRequest ==
    \A r \in ApiReqs :
        (/\ apiPc[r] = "done"
         /\ apiKind[r] \in {"create_event", "sync_user", "task_status"}
         /\ apiUpstream[r] = "ok")
        => /\ apiResponse[r] =
                Some([status |-> SuccessStatus(apiKind[r]), body |-> apiResult[r][1]])
           /\ (apiKind[r] = "create_event" /\ "event_id" \in DOMAIN apiResult[r][1]
                 => apiResult[r][1] \in events)
           /\ (apiKind[r] = "sync_user" /\ apiResult[r][1].status = "created"
                 => \E u \in users : u.user_id = apiResult[r][1].user_id)

C8_Witness ==
    /\ apiKind["a1"] = "sync_user" /\ apiPub["a1"] = "serialisation_error"
    /\ apiResponse["a1"] # None /\ apiResponse["a1"][1].status = 201
    /\ apiKind["a2"] = "create_event" /\ apiPub["a2"] = "transport_error"
    /\ apiResponse["a2"] # None /\ apiResponse["a2"][1].status = 201

\* C9: POST /api/events of a subject without an internal user: the user is
\* auto-created (first name "Cara", last name "D", username "c"), the event
\* is created with created_by equal to the new user id, and the event-created
\* message carries that user id.
C9_CreateEventAutoProvisions ==
    \A r \in ApiReqs :
        (apiKind[r] = "create_event" /\ apiPc[r] = "done" /\ apiLookup[r] = 404)
        => \E u \in UsersOf(Subject) :
             /\ u.first_name = Name_Cara /\ u.last_name = <<"D">> /\ u.username = <<"c">>
             /\ apiUserId[r] = Some(u.user_id)
             /\ (apiUpstream[r] = "ok" /\ "event_id" \in DOMAIN apiResult[r][1]
                   => apiResult[r][1].created_by = u.user_id)
             /\ \A p \in PublishedBy(r) : p.user_id = u.user_id

\* C10: two calls of get_user_id_from_firebase_uid for the same subject, one
\* after the other or overlapping, leave at most one internal user for the
\* subject (the Users service rejecting a second create), the calls that
\* succeed return the same user id, and a call that starts after a successful
\* creation issues no create request.
C10_ResolveIdempotent ==
    /\ Cardinality(UsersOf(Subject)) <= 1
    /\ \A r1, r2 \in ApiReqs :
         (apiUserId[r1] # None /\ apiUserId[r2] # None) => apiUserId[r1] = apiUserId[r2]
    /\ \A r \in ApiReqs : apiAfterCreate[r] => apiSyncSent[r] = 0

C10_Witness ==
    /\ \A r \in ApiReqs :
         apiKind[r] = "resolve" /\ apiPc[r] = "done" /\ apiSyncSent[r] = 1
    /\ Cardinality(UsersOf(Subject)) = 1
    /\ apiUserId["a1"] # None
    /\ apiUserId["a2"] = None

C25_NoUserIsClientError ==
    \A r \in ApiReqs :
        (/\ apiKind[r] \in {"create_event", "create_post"}
         /\ apiIdentity[r]
         /\ apiPc[r] \notin {"idle", "lookup", "sync"}
         /\ apiUserId[r] = None)
        => /\ apiPc[r] = "done"
           /\ apiResponse[r] = Some([status |-> 404, detail |-> ProfileDetail])
           /\ apiUpstream[r] = "none"
           /\ PublishedBy(r) = {}

C25_Witness ==
    /\ apiKind["a1"] = "create_event" /\ apiPc["a1"] = "done"
    /\ apiLookup["a1"] = 500 /\ apiUserId["a1"] = None
    /\ apiKind["a2"] = "create_post" /\ apiPc["a2"] = "done"
    /\ apiLookup["a2"] = 404 /\ apiUserId["a2"] = None

\* The auto-sync of request r is attempted only after a 404 of the lookup and
\* with a token that carries a non-empty email; its username is the part of the
\* email before the first "@".
AutoSyncGuarded(r) ==
    /\ apiSyncSent[r] > 0 => apiToken[r] # None
    /\ apiPc[r] = "sync" => apiToken[r] # None
    /\ apiToken[r] # None =>
         /\ apiLookup[r] = 404
         /\ apiToken[r][1].email # <<>>
         /\ apiPc[r] = "sync" =>
              apiResult[r][1].username = LocalPart(apiToken[r][1].email)

\* C26 (as claimed): the auto-sync is attempted only after a 404 with a
\* non-empty email; first_name is the first whitespace-separated token of the
\* display name, last_name the remaining tokens joined by single blanks, both
\* are empty when the display name is absent, and username is the part of the
\* email before the first "@".
C26_NamesEmptyWithoutDisplayName ==
    \A r \in ApiReqs :
        /\ AutoSyncGuarded(r)
        /\ apiPc[r] = "sync" =>
             LET name_parts == Split(apiToken[r][1].name)
                 sync_data == apiResult[r][1] IN
             IF name_parts # <<>>
             THEN /\ sync_data.first_name = name_parts[1]
                  /\ sync_data.last_name = JoinSpace(Tail(name_parts))
             ELSE /\ sync_data.first_name = <<>>
                  /\ sync_data.last_name = <<>>

\* C26 (amended): as above, but when the display name is absent (or holds no
\* token) first_name is the part of the email before the first "@" and only
\* last_name is empty.
C26_FirstNameFallsBackToEmail ==
    \A r \in ApiReqs :
        /\ AutoSyncGuarded(r)
        /\ apiPc[r] = "sync" =>
             LET name_parts == Split(apiToken[r][1].name)
                 sync_data == apiResult[r][1] IN
             IF name_parts # <<>>
             THEN /\ sync_data.first_name = name_parts[1]
                  /\ sync_data.last_name = JoinSpace(Tail(name_parts))
             ELSE /\ sync_data.first_name = LocalPart(apiToken[r][1].email)
                  /\ sync_data.last_name = <<>>

C26_Witness ==
    /\ apiPc["a1"] = "sync" /\ apiToken["a1"] # None
    /\ apiToken["a1"][1].name = Name_A__B_C
    /\ apiResult["a1"][1].last_name = <<"B", " ", "C">>
    /\ apiPc["a2"] = "sync" /\ apiToken["a2"] # None
    /\ apiToken["a2"][1].name = <<>>
    /\ apiResult["a2"][1].first_name = <<"c">>

\* A poll of get_event_task_status that observed status "completed" with an
\* event carrying event_id and created_by.
ObservedCompleted(r) ==
    /\ apiKind[r] = "task_status" /\ apiPc[r] = "done"
    /\ apiUpstream[r] = "ok"
    /\ DictGet(apiResult[r][1], "status", "") = "completed"
    /\ DictGet(apiResult[r][1], "event", None) # None
    /\ {"event_id", "created_by"} \subseteq DOMAIN apiResult[r][1].event[1]

\* C32: every poll of get_event_task_status that observes "completed" with an
\* event carrying event_id and created_by calls the publisher once, whatever
\* earlier polls did (no publish-once guard): each such poll whose publish
\* reaches the topic has one event-created message of its own, so two such
\* polls leave two messages; a poll that observes anything else calls no
\* publisher and publishes nothing.
C32_PublishOnEveryCompletedPoll ==
    /\ \A r \in ApiReqs :
         (apiKind[r] = "task_status" /\ apiPc[r] = "done" /\ apiIdentity[r]) =>
            IF ObservedCompleted(r)
            THEN /\ apiPub[r] # "none"
                 /\ Cardinality(PublishedBy(r)) = IF Publish(apiPub[r]).sent THEN 1 ELSE 0
                 /\ \A p \in PublishedBy(r) :
                      /\ p.topic = "event-created"
                      /\ p.event_id = apiResult[r][1].event[1].event_id
                      /\ p.user_id = apiResult[r][1].event[1].created_by
            ELSE apiPub[r] = "none" /\ PublishedBy(r) = {}
    /\ (\A r \in ApiReqs : ObservedCompleted(r) /\ apiPub[r] = "ok")
         => Cardinality(published) = Cardinality(ApiReqs)

C32_Witness ==
    /\ \A r \in ApiReqs : ObservedCompleted(r) /\ apiPub[r] = "ok"
    /\ Cardinality(published) = 2

\* C33: the created_by that POST /api/events, /api/events/async and
\* /api/posts send upstream is the user id resolved from the caller's
\* identity, whatever created_by the client put in the body, and the rest of
\* the body goes out as it came; two requests of the same caller send the same
\* created_by whatever their bodies said.
C33_CreatedByIsResolvedUser ==
    /\ \A r \in ApiReqs :
         apiSent[r] # None =>
            /\ apiKind[r] \in CreateKinds /\ apiUserId[r] # None
            /\ apiSent[r][1].created_by = apiUserId[r][1]
            /\ apiSent[r][1].title = apiBody[r][1].title
    /\ \A r1 \in ApiReqs, r2 \in ApiReqs :
         (apiSent[r1] # None /\ apiSent[r2] # None)
         => apiSent[r1][1].created_by = apiSent[r2][1].created_by
    /\ \A r \in ApiReqs :
         (apiKind[r] \in CreateKinds /\ apiUpstream[r] # "none") => apiSent[r] # None

C33_Witness ==
    /\ apiKind["a1"] = "create_event_async" /\ apiSent["a1"] # None
    /\ apiBody["a1"][1] = [title |-> "t", created_by |-> 7]
    /\ apiKind["a2"] = "create_post" /\ apiSent["a2"] # None
    /\ "created_by" \notin DOMAIN apiBody["a2"][1]
    /\ apiSent["a1"][1].created_by = 1 /\ apiSent["a2"][1].created_by = 1

\* The sync of request r created a user, and the request named an email.
SyncCreatedWithEmail(r) ==
    /\ apiResult[r] # None
    /\ DictGet(apiResult[r][1], "status", "") = "created"
    /\ DictGet(apiResult[r][1], "user_id", 0) # 0
    /\ DictGet(apiBody[r][1], "email", <<>>) # <<>>

----------------------------------------------------------------------------
(* _ensure_publisher_initialized called by concurrent publishes             *)

\* The calls of _ensure_publisher_initialized made by three publishes that run
\* at the same time; the call at module load has ended before any of them.
EnsureCalls == {"p1", "p2", "p3"}

\* "if _publisher_initialized and publisher is not None: return True"
AlreadyInitialized(initialized, client) == initialized /\ client # None

\* Some call (the one at module load included) has returned True.
ReturnedTrue ==
    \/ \E c \in EnsureCalls : ensureRet[c] = "true"
    \/ publisherInitialized

\* The module globals as the first statements of the module assign them.
InitPub ==
    /\ projectId = FALSE
    /\ publisher = None
    /\ publisherInitialized = FALSE
    /\ clientsBuilt = 0
    /\ ensurePc = [c \in EnsureCalls |-> "unloaded"]
    /\ ensureRet = [c \in EnsureCalls |-> "none"]
    /\ ensureLate = [c \in EnsureCalls |-> FALSE]
    /\ ensureBuilt = [c \in EnsureCalls |-> FALSE]

\* The import of the module: project_id is read and the call at module load
\* runs alone to its end; the client was built and tested, or the construction
\* or the test failed and publisher is None again.
ModuleLoad ==
    /\ \A c \in EnsureCalls : ensurePc[c] = "unloaded"
    /\ \E project \in BOOLEAN, loaded \in {"ok", "no_credentials", "test_failed"} :
         /\ loaded = "test_failed" => project
         /\ projectId' = project
         /\ publisher' = IF loaded = "ok" THEN Some(1) ELSE None
         /\ publisherInitialized' = (loaded = "ok")
         /\ clientsBuilt' = IF loaded = "no_credentials" THEN 0 ELSE 1
    /\ ensurePc' = [c \in EnsureCalls |-> "idle"]
    /\ UNCHANGED <<ensureRet, ensureLate, ensureBuilt>>
    /\ UNCHANGED <<aggVars, subVars, apiVars, tokVars, gqlVars, fwdVars, authVars>>

\* The call starts and reads the two globals.
EnsureCheck(c) ==
    /\ ensurePc[c] = "idle"
    /\ ensureLate' = [ensureLate EXCEPT ![c] = ReturnedTrue]
    /\ IF AlreadyInitialized(publisherInitialized, publisher)
       THEN /\ ensurePc' = [ensurePc EXCEPT ![c] = "done"]
            /\ ensureRet' = [ensureRet EXCEPT ![c] = "true"]
       ELSE /\ ensurePc' = [ensurePc EXCEPT ![c] = "construct"]
            /\ UNCHANGED ensureRet
    /\ UNCHANGED <<publisher, publisherInitialized, projectId, ensureBuilt,
                   clientsBuilt>>
    /\ UNCHANGED <<aggVars, subVars, apiVars, tokVars, gqlVars, fwdVars, authVars>>

\* publisher = pubsub_v1.PublisherClient(), or the constructor raises and the
\* except clause sets publisher = None and returns False.
EnsureConstruct(c) ==
    /\ ensurePc[c] = "construct"
    /\ \E built \in BOOLEAN :
         IF built
         THEN /\ publisher' = Some(clientsBuilt + 1)
              /\ clientsBuilt' = clientsBuilt + 1
              /\ ensureBuilt' = [ensureBuilt EXCEPT ![c] = TRUE]
              /\ ensurePc' = [ensurePc EXCEPT ![c] = "test"]
              /\ UNCHANGED ensureRet
         ELSE /\ publisher' = None
              /\ ensurePc' = [ensurePc EXCEPT ![c] = "done"]
              /\ ensureRet' = [ensureRet EXCEPT ![c] = "false"]
              /\ UNCHANGED <<clientsBuilt, ensureBuilt>>
    /\ UNCHANGED <<publisherInitialized, projectId, ensureLate>>
    /\ UNCHANGED <<aggVars, subVars, apiVars, tokVars, gqlVars, fwdVars, authVars>>

\* The test of the credentials: without project id the flag is set at once;
\* otherwise publisher.topic_path(...) on the global, which raises when the
\* credentials do not work or when the global is None by now.
EnsureTest(c) ==
    /\ ensurePc[c] = "test"
    /\ \E works \in BOOLEAN :
         IF ~projectId \/ (works /\ publisher # None)
         THEN /\ ~projectId => works
              /\ publisherInitialized' = TRUE
              /\ ensureRet' = [ensureRet EXCEPT ![c] = "true"]
              /\ UNCHANGED publisher
         ELSE /\ publisher = None => ~works
              /\ publisher' = None
              /\ ensureRet' = [ensureRet EXCEPT ![c] = "false"]
              /\ UNCHANGED publisherInitialized
    /\ ensurePc' = [ensurePc EXCEPT ![c] = "done"]
    /\ UNCHANGED <<projectId, ensureLate, ensureBuilt, clientsBuilt>>
    /\ UNCHANGED <<aggVars, subVars, apiVars, tokVars, gqlVars, fwdVars, authVars>>

NextPub ==
    \/ ModuleLoad
    \/ \E c \in EnsureCalls : EnsureCheck(c)
    \/ \E c \in EnsureCalls : EnsureConstruct(c)
    \/ \E c \in EnsureCalls : EnsureTest(c)

\* C20: across every interleaving of concurrent calls, the initialisation is
\* mutually exclusive (at most one call is between its check and its return),
\* and a call that starts after some call has returned True returns True
\* without constructing a client, the shared handle staying in place.
C20_InitialisedOnce ==
    /\ Cardinality({c \in EnsureCalls : ensurePc[c] \in {"construct", "test"}}) <= 1
    /\ \A c \in EnsureCalls :
         ensureLate[c] =>
            /\ ~ensureBuilt[c]
            /\ ensurePc[c] \in {"idle", "done"}
            /\ (ensurePc[c] = "done" => ensureRet[c] = "true")
    /\ (ReturnedTrue => publisher # None)

----------------------------------------------------------------------------
(* get_identity_token and its cache                                        *)

\* Two calls that may overlap or follow one another, and two target URLs.
TokCalls == {"k1", "k2"}
Targets == {"users-url", "events-url"}

\* _token_cache_ttl
TokenCacheTtl == 300
\* The clock is looked at every TickStep seconds, up to MaxTime.
TickStep == 150
MaxTime == 450

\* The empty string and a token string (named by the fetch that produced it).
EmptyStr == <<>>
TokenStr(target, n) == <<target, n>>

\* What id_token.fetch_id_token can hand back: a token, something that is not
\* a non-empty str, or an exception.
FetchOutcomes(target, n) ==
    { [kind |-> "token", value |-> TokenStr(target, n)],
      [kind |-> "invalid", value |-> EmptyStr],
      [kind |-> "raised", value |-> EmptyStr] }

\* A cache check that still accepts an entry exactly ttl seconds old.
CacheHitInclusive(cache, target, t) ==
    /\ cache[target] # None
    /\ t - cache[target][1].timestamp <= TokenCacheTtl

\* "if target_url in _token_cache: ... if time.time() - timestamp < ttl"
CacheHit(cache, target, t) ==
    /\ cache[target] # None
    /\ t - cache[target][1].timestamp < TokenCacheTtl

InitTok ==
    /\ tokenCache = [target \in Targets |-> None]
    /\ now = 0
    /\ tokPc = [k \in TokCalls |-> "idle"]
    /\ tokTarget = [k \in TokCalls |-> "users-url"]
    /\ tokFetched = [k \in TokCalls |-> None]
    /\ tokRet = [k \in TokCalls |-> None]
    /\ tokConcurrent = [k \in TokCalls |-> FALSE]
    /\ tokFetches = [target \in Targets |-> 0]

\* Time passes.
Tick ==
    /\ now + TickStep <= MaxTime
    /\ now' = now + TickStep
    /\ UNCHANGED <<tokenCache, tokPc, tokTarget, tokFetched, tokRet,
                   tokConcurrent, tokFetches>>
    /\ UNCHANGED <<aggVars, subVars, apiVars, pubVars, gqlVars, fwdVars, authVars>>

\* get_identity_token(target_url) up to the cache check: a fresh entry is
\* returned, otherwise the call goes on to fetch.
TokCheck(k) ==
    /\ tokPc[k] = "idle"
    /\ \E target \in Targets :
         /\ tokTarget' = [tokTarget EXCEPT ![k] = target]
         /\ tokConcurrent' = [tokConcurrent EXCEPT ![k] =
                \E other \in TokCalls \ {k} :
                    tokPc[other] \in {"fetch", "store"} /\ tokTarget[other] = target]
         /\ IF CacheHit(tokenCache, target, now)
            THEN /\ tokPc' = [tokPc EXCEPT ![k] = "done"]
                 /\ tokRet' = [tokRet EXCEPT ![k] = Some(tokenCache[target][1].token)]
            ELSE /\ tokPc' = [tokPc EXCEPT ![k] = "fetch"]
                 /\ UNCHANGED tokRet
    /\ UNCHANGED <<tokenCache, now, tokFetched, tokFetches>>
    /\ UNCHANGED <<aggVars, subVars, apiVars, pubVars, gqlVars, fwdVars, authVars>>

\* google.auth.default(), the refresh and id_token.fetch_id_token: the network
\* fetch; an exception or an invalid token ends the call with "".
TokFetch(k) ==
    /\ tokPc[k] = "fetch"
    /\ LET target == tokTarget[k] IN
       /\ tokFetches' = [tokFetches EXCEPT ![target] = @ + 1]
       /\ \E out \in FetchOutcomes(target, tokFetches[target] + 1) :
            /\ tokFetched' = [tokFetched EXCEPT ![k] = Some(out.kind)]
            /\ IF out.kind = "token"
               THEN /\ tokPc' = [tokPc EXCEPT ![k] = "store"]
                    /\ tokRet' = [tokRet EXCEPT ![k] = Some(out.value)]
               ELSE /\ tokPc' = [tokPc EXCEPT ![k] = "done"]
                    /\ tokRet' = [tokRet EXCEPT ![k] = Some(EmptyStr)]
    /\ UNCHANGED <<tokenCache, now, tokTarget, tokConcurrent>>
    /\ UNCHANGED <<aggVars, subVars, apiVars, pubVars, gqlVars, fwdVars, authVars>>

\* _token_cache[target_url] = (id_token_obj, time.time()); return id_token_obj
TokStore(k) ==
    /\ tokPc[k] = "store"
    /\ tokenCache' = [tokenCache EXCEPT ![tokTarget[k]] =
           Some([token |-> tokRet[k][1], timestamp |-> now])]
    /\ tokPc' = [tokPc EXCEPT ![k] = "done"]
    /\ UNCHANGED <<now, tokTarget, tokFetched, tokRet, tokConcurrent, tokFetches>>
    /\ UNCHANGED <<aggVars, subVars, apiVars, pubVars, gqlVars, fwdVars, authVars>>

NextTok ==
    \/ Tick
    \/ \E k \in TokCalls : TokCheck(k)
    \/ \E k \in TokCalls : TokFetch(k)
    \/ \E k \in TokCalls : TokStore(k)

\* C21: a call of get_identity_token that finds no valid cache entry while
\* another call for the same target is fetching issues no network fetch of
\* its own: at most one fetch is made for the target by the two calls, and
\* the second call returns the token the first one fetched.
C21_SingleFetchPerTarget ==
    \A k \in TokCalls :
        (tokConcurrent[k] /\ tokPc[k] # "idle")
        => /\ tokFetched[k] = None
           /\ tokPc[k] # "store"
           /\ \A other \in TokCalls \ {k} :
                (tokPc[k] = "done" /\ tokPc[other] = "done")
                => tokRet[k] = tokRet[other]

\* The cache holds a token for target that was stored less than 300 seconds
\* ago.
FreshEntry(target) ==
    /\ tokenCache[target] # None
    /\ now - tokenCache[target][1].timestamp < 300

\* C38: the identity-token cache only ever holds non-empty string tokens; a
\* call that finds an entry for its target stored less than 300 seconds ago
\* returns that token without fetching; a call at or after 300 seconds (or
\* with no entry) goes on to fetch, and a successful fetch replaces the entry
\* of its target with the fetched token and the time of the write; a failed
\* or invalid fetch returns the empty string and leaves the cache as it was;
\* the entry of a target is only ever written by a successful call for that
\* target.
C38_CacheHoldsOnlyFetchedTokens ==
    /\ [](\A target \in Targets :
            tokenCache[target] # None
            => /\ tokenCache[target][1].token # EmptyStr
               /\ \E n \in 1..tokFetches[target] :
                      tokenCache[target][1].token = TokenStr(target, n))
    /\ [][\A k \in TokCalls :
            /\ (tokPc[k] = "idle" /\ tokPc'[k] # "idle")
               => /\ tokenCache' = tokenCache /\ tokFetches' = tokFetches
                  /\ IF FreshEntry(tokTarget'[k])
                     THEN /\ tokPc'[k] = "done"
                          /\ tokRet'[k] = Some(tokenCache[tokTarget'[k]][1].token)
                     ELSE tokPc'[k] = "fetch"
            /\ (tokPc[k] = "fetch" /\ tokPc'[k] # "fetch")
               => /\ tokenCache' = tokenCache
                  /\ tokFetches'[tokTarget[k]] = tokFetches[tokTarget[k]] + 1
                  /\ IF tokFetched'[k] = Some("token")
                     THEN /\ tokPc'[k] = "store"
                          /\ tokRet'[k] # Some(EmptyStr)
                     ELSE /\ tokPc'[k] = "done"
                          /\ tokRet'[k] = Some(EmptyStr)
            /\ (tokPc[k] = "store" /\ tokPc'[k] # "store")
               => /\ tokPc'[k] = "done"
                  /\ tokRet'[k] = tokRet[k]
                  /\ tokenCache'[tokTarget[k]] =
                        Some([token |-> tokRet[k][1], timestamp |-> now])]_vars
    /\ [][\A target \in Targets :
            tokenCache'[target] # tokenCache[target]
            => \E k \in TokCalls :
                 /\ tokPc[k] = "store" /\ tokPc'[k] = "done"
                 /\ tokTarget[k] = target]_vars

\* Two calls one after the other for the same target: the second comes
\* exactly 300 seconds after the first one's write, fetches again and
\* replaces the entry, while the other target was never cached.
C38_Witness ==
    /\ tokPc = [k \in TokCalls |-> "done"]
    /\ \A k \in TokCalls : ~tokConcurrent[k] /\ tokTarget[k] = "users-url"
    /\ tokRet["k1"] = Some(TokenStr("users-url", 1))
    /\ tokRet["k2"] = Some(TokenStr("users-url", 2))
    /\ tokenCache["users-url"] =
          Some([token |-> TokenStr("users-url", 2), timestamp |-> 300])
    /\ tokenCache["events-url"] = None

----------------------------------------------------------------------------
(* The GraphQL user query (resolve_user) beside the REST feed: both are     *)
(* run on the same user id against the same upstream behaviour.            *)

\* What GET /users/{user_id} of the Users service can do (fetch_user_data).
GqlUserOutcomes ==
    { [kind |-> "http", status |-> 200, body |-> [user_id |-> 1]] }
    \cup UpstreamFailures

\* All the upstream behaviours one comparison draws: the users list for the
\* existence check and for the user branch of the feed, the single user for
\* the resolver, and the posts and events lists both surfaces ask for.
GqlUpstreams ==
    [validate : UpstreamOutcomes("user"), list : UpstreamOutcomes("user"),
     single : GqlUserOutcomes,
     posts : UpstreamOutcomes("posts"), events : UpstreamOutcomes("events")]

\* get_user_feed from the existence check to the response, the three branch
\* threads having run (in any order) on a fresh results / errors pair.
GetUserFeed(user_id, ups) ==
    IF ~ValidateUserExists(user_id, ups.validate)
    THEN [status |-> 404, detail |-> "User not found"]
    ELSE LET f1 == FetchBranch("user", user_id, ups.list,
                               InitialResults, InitialErrors)
             f2 == FetchBranch("posts", user_id, ups.posts,
                               f1.results, f1.errors)
             f3 == FetchBranch("events", user_id, ups.events,
                               f2.results, f2.errors)
         IN FeedResponse(f3.results, f3.errors)

\* One gathered result of resolve_user: the items of a 200 response, and the
\* initial [] for every other status and for an exception
\* (asyncio.gather(..., return_exceptions=True)).
GatheredItems(up) ==
    IF up.kind = "http" /\ up.status = 200
    THEN DictGet(up.body, "items", <<>>)
    ELSE <<>>

\* resolve_user with includePosts and includeEvents: fetch_user_data raises
\* on a failed call (a GraphQL error), gives None on a non-200 status (the
\* user field is null), and otherwise the user with its posts and events.
ResolveUser(user_id, ups) ==
    IF ups.single.kind # "http"
    THEN [outcome |-> "error"]
    ELSE IF ups.single.status # 200
    THEN [outcome |-> "data", user |-> None]
    ELSE [outcome |-> "data", user |-> Some(ups.single.body),
          posts |-> GatheredItems(ups.posts),
          events |-> GatheredItems(ups.events)]

InitGql ==
    /\ gqlPc = "idle"
    /\ gqlUps = None
    /\ gqlRest = None
    /\ gqlGraph = None

\* A client asks both surfaces for user 1; the upstreams behave in one way.
GqlAsk ==
    /\ gqlPc = "idle"
    /\ \E ups \in GqlUpstreams : gqlUps' = Some(ups)
    /\ gqlPc' = "asked"
    /\ UNCHANGED <<gqlRest, gqlGraph>>
    /\ UNCHANGED <<aggVars, subVars, apiVars, pubVars, tokVars, fwdVars, authVars>>

\* GET /api/users/1/feed is answered.
GqlRestFeed ==
    /\ gqlPc = "asked"
    /\ gqlRest = None
    /\ gqlRest' = Some(GetUserFeed(1, gqlUps[1]))
    /\ gqlPc' = IF gqlGraph # None THEN "done" ELSE "asked"
    /\ UNCHANGED <<gqlUps, gqlGraph>>
    /\ UNCHANGED <<aggVars, subVars, apiVars, pubVars, tokVars, fwdVars, authVars>>

\* query { user(userId: 1) { ... posts ... events } } is answered.
GqlResolveUser ==
    /\ gqlPc = "asked"
    /\ gqlGraph = None
    /\ gqlGraph' = Some(ResolveUser(1, gqlUps[1]))
    /\ gqlPc' = IF gqlRest # None THEN "done" ELSE "asked"
    /\ UNCHANGED <<gqlUps, gqlRest>>
    /\ UNCHANGED <<aggVars, subVars, apiVars, pubVars, tokVars, fwdVars, authVars>>

NextGql == GqlAsk \/ GqlRestFeed \/ GqlResolveUser

\* The user itself is found on both surfaces: what remains to differ is the
\* posts branch and the events branch.
GqlUserFoundOnBoth ==
    /\ gqlPc = "done"
    /\ ValidateUserExists(1, gqlUps[1].validate)
    /\ OutcomeClass(gqlUps[1].list) = "ok"
    /\ FindUser(gqlUps[1].list.body, 1) # None
    /\ OutcomeClass(gqlUps[1].single) = "ok"

\* C24: for the same user id and the same outcomes of the posts and events
\* upstream calls (200, another status, or an exception), the GraphQL user
\* query fails exactly when the REST feed fails, and when both succeed they
\* carry the same posts and the same events.
C24_SameAggregation ==
    GqlUserFoundOnBoth =>
        /\ (gqlGraph[1].outcome = "error") <=> (gqlRest[1].status # 200)
        /\ (gqlGraph[1].outcome = "data" /\ gqlRest[1].status = 200)
           => /\ gqlGraph[1].posts = gqlRest[1].posts
              /\ gqlGraph[1].events = gqlRest[1].events

----------------------------------------------------------------------------
(* forward_request behind the delegating GET endpoints, and get_event      *)

\* The GET endpoints that hand the upstream ETag to the client.
RelayEndpoints ==
    {"get_event", "get_events", "get_posts", "get_post", "get_current_user",
     "get_user_schedules"}

\* The If-None-Match header of the client: absent, or the tag of its copy.
ClientTags == {None, Some("v1")}

\* Bodies of an upstream error response: no body, text that is not JSON, a
\* JSON object with a detail member, one with a message member only, and a
\* JSON array.
ErrorBodies ==
    { [form |-> "empty", text |-> ""],
      [form |-> "text", text |-> "<html>Bad Gateway</html>"],
      [form |-> "object", text |-> "{detail}", value |-> [detail |-> "Not allowed"]],
      [form |-> "object", text |-> "{message}", value |-> [message |-> "Not allowed"]],
      [form |-> "array", text |-> "[]"] }

ErrorStatuses == {404, 500}

\* The headers forward_request sends: a copy of the handler's headers with
\* x-firebase-uid and Content-Type set.
ForwardHeaders(headers, firebase_uid) ==
    ("Content-Type" :> "application/json") @@ ("x-firebase-uid" :> firebase_uid)
        @@ headers

\* The headers of the upstream request of each endpoint: get_event builds its
\* own (with the client's If-None-Match when there is one), the others call
\* forward_request with headers = {}.
SentHeaders(endpoint, firebase_uid, if_none_match) ==
    IF endpoint = "get_event"
    THEN IF if_none_match # None
         THEN ("If-None-Match" :> if_none_match[1]) @@ ("x-firebase-uid" :> firebase_uid)
         ELSE ("x-firebase-uid" :> firebase_uid)
    ELSE ForwardHeaders(<<>>, firebase_uid)

\* What the upstream can do with the request: 200 with the resource (and its
\* ETag, if it has one), 304 when the request carried an If-None-Match equal
\* to the ETag, an error status, or no answer.
RelayOutcomes(sent) ==
    { [kind |-> "http", status |-> 200, body |-> [id |-> 1], etag |-> e] :
        e \in {None, Some("v1")} }
    \cup (IF DictGet(sent, "If-None-Match", "") = "v1"
          THEN {[kind |-> "http", status |-> 304, body |-> None, etag |-> Some("v1")]}
          ELSE {})
    \cup { [kind |-> "http", status |-> st, body |-> b, etag |-> None] :
             st \in ErrorStatuses, b \in ErrorBodies }
    \cup { [kind |-> "timeout", text |-> "timed out"],
           [kind |-> "unreachable", text |-> "All connection attempts failed"] }

\* An error detail that is the generic text whatever the body holds.
ErrorDetailGeneric(st, body) ==
    [class |-> "atomic_service_error", text |-> "", status |-> st]

\* The detail forward_request gives its HTTPException for an HTTPStatusError:
\* "Atomic service error: <status>", replaced by the detail member of a JSON
\* object that has one; when e.response.json() raises, the body text, and
\* str(e) (the status line message of httpx) when the text is empty.
ErrorDetail(st, body) ==
    IF body.form \in {"empty", "text"}
    THEN IF body.text # ""
         THEN [class |-> "body_text", text |-> body.text, status |-> st]
         ELSE [class |-> "status_line", text |-> "", status |-> st]
    ELSE IF body.form = "object" /\ "detail" \in DOMAIN body.value
    THEN [class |-> "field", text |-> body.value.detail, status |-> st]
    ELSE [class |-> "atomic_service_error", text |-> "", status |-> st]

\* forward_request("GET", ..., response_obj=response): the HTTPException it
\* raises, or the parsed body with the ETag it put on response_obj.
ForwardGet(up) ==
    IF up.kind # "http"
    THEN [raised |-> TRUE, status |-> 503,
          detail |-> [class |-> "cannot_connect", text |-> up.text, status |-> 503]]
    ELSE IF up.status >= 400
    THEN [raised |-> TRUE, status |-> up.status,
          detail |-> ErrorDetail(up.status, up.body)]
    ELSE [raised |-> FALSE, result |-> up.body, etag |-> up.etag]

\* The response of a delegating GET endpoint for the upstream outcome.
\* get_event answers a 304 itself and lets every exception of its own client
\* pass (an unhandled exception is a 500); the others answer what
\* forward_request gave them.
RelayResponse(endpoint, up) ==
    IF endpoint = "get_event"
    THEN IF up.kind # "http" \/ up.status >= 400
         THEN [status |-> 500,
               detail |-> [class |-> "internal", text |-> "", status |-> 500]]
         ELSE IF up.status = 304
         THEN [status |-> 304, body |-> None, etag |-> up.etag]
         ELSE [status |-> 200, body |-> Some(up.body), etag |-> up.etag]
    ELSE LET f == ForwardGet(up) IN
         IF f.raised
         THEN [status |-> f.status, detail |-> f.detail]
         ELSE [status |-> 200, body |-> Some(f.result), etag |-> f.etag]

InitFwd ==
    /\ fwdPc = "idle"
    /\ fwdEndpoint = "get_event"
    /\ fwdInm = None
    /\ fwdSent = None
    /\ fwdUp = None
    /\ fwdResponse = None

\* A GET of one of the endpoints arrives (with an identity) and the handler
\* sends its upstream request.
FwdRequest ==
    /\ fwdPc = "idle"
    /\ \E endpoint \in RelayEndpoints, inm \in ClientTags :
         /\ fwdEndpoint' = endpoint
         /\ fwdInm' = inm
         /\ fwdSent' = Some(SentHeaders(endpoint, CallerUid, inm))
    /\ fwdPc' = "sent"
    /\ UNCHANGED <<fwdUp, fwdResponse>>
    /\ UNCHANGED <<aggVars, subVars, apiVars, pubVars, tokVars, gqlVars, authVars>>

\* The upstream answers (or not) and the handler runs to its end.
FwdAnswer ==
    /\ fwdPc = "sent"
    /\ \E up \in RelayOutcomes(fwdSent[1]) :
         /\ fwdUp' = Some(up)
         /\ fwdResponse' = Some(RelayResponse(fwdEndpoint, up))
    /\ fwdPc' = "done"
    /\ UNCHANGED <<fwdEndpoint, fwdInm, fwdSent>>
    /\ UNCHANGED <<aggVars, subVars, apiVars, pubVars, tokVars, gqlVars, authVars>>

NextFwd == FwdRequest \/ FwdAnswer

\* A request answered through forward_request for an upstream error status.
FwdUpstreamError ==
    /\ fwdPc = "done"
    /\ fwdEndpoint # "get_event"
    /\ fwdUp[1].kind = "http"
    /\ fwdUp[1].status >= 400

C28_TimeoutDistinctFromUnreachable ==
    (fwdPc = "done" /\ fwdEndpoint # "get_event" /\ fwdUp[1].kind = "timeout")
    => LET other == ForwardGet([kind |-> "unreachable",
                                text |-> "All connection attempts failed"]) IN
       \/ fwdResponse[1].status # other.status
       \/ fwdResponse[1].detail.class # other.detail.class

\* C29: every endpoint that hands the upstream ETag to the client sends the
\* client's If-None-Match with its upstream request, and answers an upstream
\* 304 with 304, no body and the upstream ETag.
C29_ConditionalGetRelayed ==
    /\ (fwdPc # "idle" /\ fwdInm # None)
         => DictGet(fwdSent[1], "If-None-Match", "") = fwdInm[1]
    /\ (fwdPc = "done" /\ fwdUp[1].kind = "http" /\ fwdUp[1].status = 304)
         => fwdResponse[1] = [status |-> 304, body |-> None, etag |-> fwdUp[1].etag]

----------------------------------------------------------------------------
(* verify_firebase_token                                                   *)

Word_Bearer == <<"B", "e", "a", "r", "e", "r">>
Word_bearer == <<"b", "e", "a", "r", "e", "r">>
Word_BEARER == <<"B", "E", "A", "R", "E", "R">>
Word_Basic == <<"B", "a", "s", "i", "c">>
Word_tok == <<"t", "o", "k">>

\* Authorization headers of a call: absent, empty, well-formed in three
\* spellings and spacings, another scheme, one part only, the two parts in
\* the wrong order, three parts.
AuthHeaders ==
    { None, Some(<<>>),
      Some(Word_Bearer \o <<" ">> \o Word_tok),
      Some(Word_bearer \o <<" ">> \o Word_tok),
      Some(<<" ">> \o Word_BEARER \o <<" ", " ">> \o Word_tok \o <<" ">>),
      Some(Word_Basic \o <<" ">> \o Word_tok),
      Some(Word_Bearer),
      Some(Word_tok \o <<" ">> \o Word_Bearer),
      Some(Word_Bearer \o <<" ">> \o Word_tok \o <<" ">> \o Word_tok) }

\* What auth.verify_id_token does with a token: the decoded token, or one of
\* its exceptions (ExpiredIdTokenError, InvalidIdTokenError, and errors that
\* are neither: a revoked token, a certificate fetch failure, a ValueError).
VerifyOutcomes == {"decoded", "expired", "invalid", "revoked", "cert_fetch_error"}

\* str.lower() on the letters of the headers.
LowerChar(c) ==
    IF c = "B" THEN "b" ELSE IF c = "E" THEN "e" ELSE IF c = "A" THEN "a"
    ELSE IF c = "R" THEN "r" ELSE c
Lower(str) == [i \in 1..Len(str) |-> LowerChar(str[i])]

\* A verification that lets the HTTPException of the SDK check pass.
VerifyFirebaseTokenReraising(authorization, sdk_initialised, outcome) ==
    IF authorization = None \/ authorization[1] = <<>>
    THEN [status |-> 401, detail |-> "Authorization header missing"]
    ELSE LET parts == Split(authorization[1]) IN
         IF Len(parts) # 2 \/ Lower(parts[1]) # Word_bearer
         THEN [status |-> 401, detail |-> "Invalid authorization header format"]
         ELSE IF ~sdk_initialised
         THEN [status |-> 500, detail |-> "Firebase Admin SDK not initialized"]
         ELSE IF outcome = "decoded"
         THEN [status |-> 200, decoded_token |-> [uid |-> "uidA"]]
         ELSE IF outcome = "expired"
         THEN [status |-> 401, detail |-> "Firebase token expired"]
         ELSE IF outcome = "invalid"
         THEN [status |-> 401, detail |-> "Invalid Firebase token"]
         ELSE [status |-> 401, detail |-> "Token verification failed"]

\* verify_firebase_token: "scheme, token = authorization.split()" raises
\* ValueError unless there are exactly two parts; the HTTPException(500) of
\* the SDK check is raised inside the try and caught by "except Exception".
VerifyFirebaseToken(authorization, sdk_initialised, outcome) ==
    IF authorization = None \/ authorization[1] = <<>>
    THEN [status |-> 401, detail |-> "Authorization header missing"]
    ELSE LET parts == Split(authorization[1]) IN
         IF Len(parts) # 2 \/ Lower(parts[1]) # Word_bearer
         THEN [status |-> 401, detail |-> "Invalid authorization header format"]
         ELSE IF ~sdk_initialised
         THEN [status |-> 401, detail |-> "Token verification failed"]
         ELSE IF outcome = "decoded"
         THEN [status |-> 200, decoded_token |-> [uid |-> "uidA"]]
         ELSE IF outcome = "expired"
         THEN [status |-> 401, detail |-> "Firebase token expired"]
         ELSE IF outcome = "invalid"
         THEN [status |-> 401, detail |-> "Invalid Firebase token"]
         ELSE [status |-> 401, detail |-> "Token verification failed"]

InitAuth ==
    /\ authPc = "unloaded"
    /\ authSdk = FALSE
    /\ authHeader = None
    /\ authVerify = "none"
    /\ authResult = None

\* The module is imported: the Firebase Admin SDK gets initialised or not.
AuthModuleLoad ==
    /\ authPc = "unloaded"
    /\ \E initialised \in BOOLEAN : authSdk' = initialised
    /\ authPc' = "idle"
    /\ UNCHANGED <<authHeader, authVerify, authResult>>
    /\ UNCHANGED <<aggVars, subVars, apiVars, pubVars, tokVars, gqlVars, fwdVars>>

\* A request reaches the dependency with its Authorization header.
AuthCall ==
    /\ authPc = "idle"
    /\ \E authorization \in AuthHeaders : authHeader' = authorization
    /\ authPc' = "called"
    /\ UNCHANGED <<authSdk, authVerify, authResult>>
    /\ UNCHANGED <<aggVars, subVars, apiVars, pubVars, tokVars, gqlVars, fwdVars>>

\* The body of verify_firebase_token runs to its end.
AuthVerifyToken ==
    /\ authPc = "called"
    /\ \E outcome \in VerifyOutcomes :
         /\ authVerify' = outcome
         /\ authResult' = Some(VerifyFirebaseToken(authHeader, authSdk, outcome))
    /\ authPc' = "done"
    /\ UNCHANGED <<authSdk, authHeader>>
    /\ UNCHANGED <<aggVars, subVars, apiVars, pubVars, tokVars, gqlVars, fwdVars>>

NextAuth == AuthModuleLoad \/ AuthCall \/ AuthVerifyToken

\* The header of the call is "<scheme> <token>" with scheme bearer in any case.
AuthHeaderWellFormed ==
    /\ authHeader # None
    /\ Len(Split(authHeader[1])) = 2
    /\ Lower(Split(authHeader[1])[1]) = Word_bearer

\* C35: every failure of verify_firebase_token has status 401: a missing
\* header, a header that is not two parts with scheme bearer, an expired or
\* invalid token, any other verification error, and an SDK that is not
\* initialised (the 500 raised for it does not reach the caller); the call
\* succeeds only for a well-formed header, an initialised SDK and a token the
\* SDK decodes.
C35_EveryFailureIs401 ==
    authPc = "done" =>
        IF AuthHeaderWellFormed /\ authSdk /\ authVerify = "decoded"
        THEN authResult[1].status = 200
        ELSE authResult[1].status = 401

C35_Witness ==
    /\ authPc = "done"
    /\ AuthHeaderWellFormed /\ ~authSdk
    /\ authResult[1] = [status |-> 401, detail |-> "Token verification failed"]

----------------------------------------------------------------------------
Init ==
    /\ InitAgg /\ InitSub /\ InitApi /\ InitPub /\ InitTok /\ InitGql /\ InitFwd
    /\ InitAuth

\* Every upstream call of a branch is bounded by timeout=10.0 and every thread
\* is scheduled, so an enabled step of a request is eventually taken.
SpecAgg == Init /\ [][NextAgg]_vars /\ WF_vars(NextAgg)

\* Startup, the two listener threads and the subscribers with the transport
\* that delivers and redelivers. startup_event runs start_subscribers to its
\* end; the transport redelivers a nacked message while the listener runs, and
\* the subscriber's thread pool runs every callback it was handed.
SpecSub ==
    /\ Init /\ [][NextSub]_vars
    /\ WF_vars(StartSubscribers)
    /\ \A sub \in Subs : WF_vars(StartThread(sub))
    /\ \A m \in Msgs :
         WF_vars(Redeliver(m)) /\ WF_vars(CallbackStart(m)) /\ WF_vars(CallbackRun(m))

\* The create / sync / task-status endpoints and the user-id resolution with
\* the Users service, the Events service and the publishers.
SpecApi == Init /\ [][NextApi]_vars

\* Concurrent calls of _ensure_publisher_initialized on the module globals.
SpecPub == Init /\ [][NextPub]_vars

\* Calls of get_identity_token on the module-level cache, with the clock.
SpecTok == Init /\ [][NextTok]_vars

\* The REST feed and the GraphQL user query on the same upstream behaviour.
SpecGql == Init /\ [][NextGql]_vars

\* One GET of a delegating endpoint with its upstream call.
SpecFwd == Init /\ [][NextFwd]_vars

\* One call of verify_firebase_token in a process.
SpecAuth == Init /\ [][NextAuth]_vars

Next ==
    \/ NextAgg \/ NextSub \/ NextApi \/ NextPub \/ NextTok \/ NextGql \/ NextFwd
    \/ NextAuth
Spec == Init /\ [][Next]_vars

====
